---- MODULE Spec2Model ----
(***************************************************************************)
(* Model of sigfox-cli: the HTTP request layer (SigfoxClient), the         *)
(* resource facades that call it, the Sigfox object that holds them and    *)
(* the commands of the command line.  One call is followed from the moment *)
(* the caller invokes an operation to the moment it returns or raises:     *)
(*   idle --Call*--> await --Receive*--> done                              *)
(* The remote server (and the transport below it) is the environment: each *)
(* Receive step draws the answer to the request in flight from a bounded   *)
(* set of HTTP responses and transport failures.                           *)
(*   Spec        the request layer and get_paginated                       *)
(*   SigfoxSpec  facade operations, from the Sigfox object to the result   *)
(*   RequestSpec the query parameters and bodies the facades build         *)
(*   RenewSpec   renew_credential called again and again                   *)
(*   CliSpec     the commands of the command line                          *)
(*   ConfigSpec  load_config over the three sources of a setting           *)
(*   ParseSpec   model_validate over a document of the server              *)
(*   WithSpec    the client and the Sigfox object as context managers      *)
(***************************************************************************)
EXTENDS Integers, Sequences, FiniteSets, TLC

VARIABLES
    pc,          \* "idle" | "await" (a request is in flight) | "done"
    call,        \* the operation the caller invoked, with its arguments
    sent,        \* the HTTP requests issued so far by this call, in order
    received,    \* the answers received so far by this call, in order
    params,      \* get_paginated: the params mapping (mutated in place)
    all_items,   \* get_paginated: the accumulated items
    offset,      \* get_paginated: the local variable offset
    page_limit,  \* get_paginated: the local variable page_limit
    outcome,     \* "pending" | "returned" | "raised"
    retval,      \* the value returned (JSON value, record) or displayed
    retlist,     \* the list returned by get_paginated or a list operation
    error,       \* the error raised
    client,      \* the httpx.Client of a command or with block:
                 \* "none" (not constructed) | "open" | "closed"
    printed      \* the lines a command has printed, in order

vars == <<pc, call, sent, received, params, all_items, offset, page_limit,
          outcome, retval, retlist, error, client, printed>>

-----------------------------------------------------------------------------
(* Bounds of the model.                                                    *)

MaxRequests == 3     \* requests one get_paginated call may issue in the model
MaxPageItems == 2    \* items of one page
MaxLimit == 3        \* largest caller-supplied limit of get_paginated
MaxOffset == 1       \* largest caller-supplied params["offset"]

-----------------------------------------------------------------------------
(* Optional values: Python's None / an absent mapping key.                 *)

None == [has |-> FALSE, v |-> 0]
Some(x) == [has |-> TRUE, v |-> x]

Absent == "<absent>"   \* marks a JSON key that the object does not have

-----------------------------------------------------------------------------
(* HTTP responses.  A body is the raw content of the response.             *)
(*   kind "empty"  : no content at all (204 No Content, or an empty 200)   *)
(*   kind "text"   : content that is not JSON                              *)
(*   kind "array"  : a JSON array                                          *)
(*   kind "object" : a JSON object with the keys message, data and paging  *)
(*                   (paging.next) present or absent                       *)

Body(kind, message, hasData, data, hasPaging, next) ==
    [kind |-> kind, message |-> message, hasData |-> hasData, data |-> data,
     hasPaging |-> hasPaging, next |-> next]

EmptyBody == Body("empty", Absent, FALSE, <<>>, FALSE, Absent)
TextBody == Body("text", Absent, FALSE, <<>>, FALSE, Absent)
ArrayBody == Body("array", Absent, FALSE, <<>>, FALSE, Absent)
ObjectBody(message) == Body("object", message, FALSE, <<>>, FALSE, Absent)

\* Bodies a server sends on a single-resource endpoint or with an error.
SimpleBodies ==
    {EmptyBody, TextBody, ArrayBody, ObjectBody(Absent), ObjectBody("Not Found")}

\* items start+1 .. start+n, in this order
Items(start, n) == [i \in 1..n |-> start + i]

\* The values of paging.next: key absent, empty string, a URL.
NextValues == {Absent, "", "https://api.sigfox.com/v2/next"}

\* Pages of a list endpoint asked for the items after `off`: a server that
\* honours the offset sends the items off+1.., a non-advancing server sends
\* the first items again.
PageBodies(off) ==
    {Body("object", Absent, TRUE, Items(start, n), FALSE, Absent) :
        start \in {0, off}, n \in 0..MaxPageItems}
    \cup
    {Body("object", Absent, TRUE, Items(start, n), TRUE, nx) :
        start \in {0, off}, n \in 0..MaxPageItems, nx \in NextValues}

Statuses == {200, 204, 302, 400, 401, 403, 404, 500}

\* Transport-level failures, by the httpx exception class that reports them.
\*   ConnectError        (httpx.NetworkError)     DNS failure, connection refused
\*   ReadError           (httpx.NetworkError)     connection reset while reading
\*   ConnectTimeout      (httpx.TimeoutException)
\*   ReadTimeout         (httpx.TimeoutException)
\*   RemoteProtocolError (httpx.ProtocolError)    server disconnected without
\*                                                sending a response
TransportFailures ==
    {"ConnectError", "ReadError", "ConnectTimeout", "ReadTimeout",
     "RemoteProtocolError"}

NoBody == EmptyBody
HttpResponse(status, body) == [failure |-> "-", status |-> status, body |-> body]
Failure(kind) == [failure |-> kind, status |-> 0, body |-> NoBody]

IsFailure(resp) == resp.failure # "-"

\* httpx.Response.is_success
IsSuccess(resp) == resp.status >= 200 /\ resp.status <= 299

\* httpx.Response.text: the raw content
Text(resp) == [raw |-> resp.body]

-----------------------------------------------------------------------------
(* JSON values.                                                            *)

JsonObject(message, hasData, data, hasPaging, next) ==
    [type |-> "object", message |-> message, hasData |-> hasData, data |-> data,
     hasPaging |-> hasPaging, next |-> next]

\* {}
EmptyMapping == JsonObject(Absent, FALSE, <<>>, FALSE, Absent)
JsonArray == [type |-> "array"]
NoValue == [type |-> "none"]

\* httpx.Response.json(): json.loads of the content
JsonFails(resp) == resp.body.kind \in {"empty", "text"}

Json(resp) ==
    IF resp.body.kind = "array"
    THEN JsonArray
    ELSE JsonObject(resp.body.message, resp.body.hasData, resp.body.data,
                    resp.body.hasPaging, resp.body.next)

-----------------------------------------------------------------------------
(* Errors.                                                                 *)

Taxonomy ==
    {"AuthenticationError", "AuthorizationError", "NotFoundError", "APIError",
     "NetworkError", "ValidationError"}

NoError == [kind |-> "-"]

\* an exception that carries only a message
Raise(kind, prefix, detail, suffix) ==
    [kind |-> kind, prefix |-> prefix, detail |-> detail, suffix |-> suffix]

\* APIError(message, status_code, response_body)
RaiseAPIError(prefix, detail, status_code, response_body) ==
    [kind |-> "APIError", prefix |-> prefix, detail |-> detail, suffix |-> "",
     status_code |-> status_code, response_body |-> response_body]

\* an error message that always embeds the raw text
ErrorMessage_AlwaysText(resp) == Text(resp)

\* the message the error embeds: lines 71-75 of _handle_error
ErrorMessage(resp) ==
    IF JsonFails(resp) THEN Text(resp)
    ELSE IF Json(resp).type # "object" THEN Text(resp)      \* list has no .get
    ELSE IF Json(resp).message # Absent THEN [msg |-> Json(resp).message]
    ELSE Text(resp)

\* _handle_error with 404 falling through to the generic branch
HandleError_No404(resp) ==
    IF IsSuccess(resp) THEN NoError
    ELSE IF resp.status = 401
    THEN Raise("AuthenticationError", "Authentication failed: ", ErrorMessage(resp),
               ". Please check your API credentials.")
    ELSE IF resp.status = 403
    THEN Raise("AuthorizationError", "Authorization failed: ", ErrorMessage(resp),
               ". You don't have permission to access this resource.")
    ELSE IF resp.status >= 400
    THEN RaiseAPIError("API error (status ", ErrorMessage(resp), resp.status, Text(resp))
    ELSE NoError

\* _handle_error passing the extracted message as response_body
HandleError_BodyIsMessage(resp) ==
    IF IsSuccess(resp) THEN NoError
    ELSE IF resp.status = 401
    THEN Raise("AuthenticationError", "Authentication failed: ", ErrorMessage(resp),
               ". Please check your API credentials.")
    ELSE IF resp.status = 403
    THEN Raise("AuthorizationError", "Authorization failed: ", ErrorMessage(resp),
               ". You don't have permission to access this resource.")
    ELSE IF resp.status = 404
    THEN Raise("NotFoundError", "Resource not found: ", ErrorMessage(resp), "")
    ELSE IF resp.status >= 400
    THEN RaiseAPIError("API error (status ", ErrorMessage(resp), resp.status,
                       ErrorMessage(resp))
    ELSE NoError

\* SigfoxClient._handle_error: NoError when it returns normally
HandleError(resp) ==
    IF IsSuccess(resp) THEN NoError
    ELSE IF resp.status = 401
    THEN Raise("AuthenticationError", "Authentication failed: ", ErrorMessage(resp),
               ". Please check your API credentials.")
    ELSE IF resp.status = 403
    THEN Raise("AuthorizationError", "Authorization failed: ", ErrorMessage(resp),
               ". You don't have permission to access this resource.")
    ELSE IF resp.status = 404
    THEN Raise("NotFoundError", "Resource not found: ", ErrorMessage(resp), "")
    ELSE IF resp.status >= 400
    THEN RaiseAPIError("API error (status ", ErrorMessage(resp), resp.status, Text(resp))
    ELSE NoError

\* the except clauses of get/post: httpx.NetworkError and httpx.TimeoutException
\* are re-raised as NetworkError, any other exception propagates as it is
CaughtAsNetworkError(kind) ==
    kind \in {"ConnectError", "ReadError", "ConnectTimeout", "ReadTimeout"}

TransportError(kind) ==
    IF CaughtAsNetworkError(kind)
    THEN Raise("NetworkError",
               IF kind \in {"ConnectTimeout", "ReadTimeout"}
               THEN "Request timeout: " ELSE "Network error: ",
               [exc |-> kind], "")
    ELSE Raise(kind, "", [exc |-> kind], "")

\* The result of a request operation: [error |-> e, value |-> v], error NoError
\* when the operation returns v.
Returned(v) == [error |-> NoError, value |-> v]
Raised(e) == [error |-> e, value |-> NoValue]

\* a get / post that answers a failed request with the empty mapping
GetOrPost_Lenient(resp) ==
    IF IsFailure(resp) \/ HandleError(resp) # NoError THEN Returned(EmptyMapping)
    ELSE IF JsonFails(resp) THEN Raised(Raise("JSONDecodeError", "", Text(resp), ""))
    ELSE Returned(Json(resp))

\* SigfoxClient.get / SigfoxClient.post, from the response on
GetOrPost(resp) ==
    IF IsFailure(resp) THEN Raised(TransportError(resp.failure))
    ELSE IF HandleError(resp) # NoError THEN Raised(HandleError(resp))
    ELSE IF JsonFails(resp) THEN Raised(Raise("JSONDecodeError", "", Text(resp), ""))
    ELSE Returned(Json(resp))

\* SigfoxClient.put / SigfoxClient.delete, from the response on, as the
\* request-layer contract states them: NetworkError on a transport failure,
\* the taxonomy error of the status on a non-2xx response, the parsed body on
\* a 2xx response and the empty mapping when that body is empty
PutOrDelete(resp) ==
    IF IsFailure(resp) THEN Raised(Raise("NetworkError", "Network error: ",
                                         [exc |-> resp.failure], ""))
    ELSE IF HandleError(resp) # NoError THEN Raised(HandleError(resp))
    ELSE IF ~IsSuccess(resp)
    THEN Raised(RaiseAPIError("API error (status ", ErrorMessage(resp),
                              resp.status, Text(resp)))
    ELSE IF resp.status = 204 \/ resp.body.kind = "empty" THEN Returned(EmptyMapping)
    ELSE IF JsonFails(resp) THEN Raised(Raise("JSONDecodeError", "", Text(resp), ""))
    ELSE Returned(Json(resp))

Methods == {"GET", "POST", "PUT", "DELETE"}

Request(method, resp) ==
    IF method \in {"GET", "POST"} THEN GetOrPost(resp) ELSE PutOrDelete(resp)

-----------------------------------------------------------------------------
(* The resource facades.  Every operation is [api, op, method]: the one    *)
(* request operation of the HTTP layer that its body calls.                *)

Op(api, op, method) == [api |-> api, op |-> op, method |-> method]

DevicesOps ==
    {Op("devices", "list", "GET"), Op("devices", "get", "GET"),
     Op("devices", "create", "POST"), Op("devices", "update", "PUT"),
     Op("devices", "delete", "DELETE"), Op("devices", "messages", "GET")}

DeviceTypesOps ==
    {Op("device_types", "list", "GET"), Op("device_types", "get", "GET"),
     Op("device_types", "create", "POST"), Op("device_types", "update", "PUT"),
     Op("device_types", "delete", "DELETE")}

GroupsOps ==
    {Op("groups", "list", "GET"), Op("groups", "get", "GET"),
     Op("groups", "create", "POST"), Op("groups", "update", "PUT"),
     Op("groups", "delete", "DELETE"),
     Op("groups", "callbacks_not_delivered", "GET"),
     Op("groups", "geoloc_payloads", "GET")}

UsersOps ==
    {Op("users", "list", "GET"), Op("users", "get", "GET"),
     Op("users", "create", "POST"), Op("users", "update", "PUT"),
     Op("users", "delete", "DELETE"), Op("users", "add_roles", "PUT"),
     Op("users", "remove_role", "DELETE")}

ApiUsersOps ==
    {Op("api_users", "list", "GET"), Op("api_users", "get", "GET"),
     Op("api_users", "create", "POST"), Op("api_users", "update", "PUT"),
     Op("api_users", "delete", "DELETE"), Op("api_users", "add_profiles", "PUT"),
     Op("api_users", "remove_profile", "DELETE"),
     Op("api_users", "renew_credential", "PUT")}

BaseStationsOps == {Op("base_stations", "list_messages", "GET")}

ContractInfosOps ==
    {Op("contract_infos", "list", "GET"), Op("contract_infos", "get", "GET"),
     Op("contract_infos", "list_devices", "GET")}

CoveragesOps ==
    {Op("coverages", "get_global_prediction", "GET"),
     Op("coverages", "start_bulk_prediction", "POST"),
     Op("coverages", "get_bulk_prediction", "GET"),
     Op("coverages", "get_operator_redundancy", "GET")}

FacadeOps ==
    DevicesOps \cup DeviceTypesOps \cup GroupsOps \cup UsersOps \cup ApiUsersOps
    \cup BaseStationsOps \cup ContractInfosOps \cup CoveragesOps

\* a create that fetches the created record with a second request
Plan_CreateThenGet(c) ==
    IF c.op = "create" THEN <<c.method, "GET">> ELSE <<c.method>>

\* The request operations a call issues, in order, when none of them raises.
Plan(c) == <<c.method>>

-----------------------------------------------------------------------------
(* get_paginated.                                                          *)

DefaultOffset == 0
DefaultPageLimit == 100

NoParams == [offset |-> None, limit |-> None]

\* params.get(key, default)
GetOr(opt, default) == IF opt.has THEN opt.v ELSE default

\* all_items.extend(items) written as a prepend
Extend_Prepend(all, items) == items \o all

\* all_items.extend(items)
Extend(all, items) == all \o items

\* all_items[:limit]
Truncate(all, limit) == SubSeq(all, 1, IF limit < Len(all) THEN limit ELSE Len(all))

\* offset advanced by the page size asked for instead of the items received
NextOffset_ByPageSize(off, items, pl) == off + pl

\* offset += len(items)
NextOffset(off, items, pl) == off + Len(items)

\* response_data.get("data", [])
DataOf(json) == IF json.hasData THEN json.data ELSE <<>>

\* response_data.get("paging", {}).get("next"); Absent stands for None
NextUrlOf(json) == IF json.hasPaging THEN json.next ELSE Absent

\* Python truth value of next_url
Truthy(next_url) == next_url \notin {Absent, ""}

-----------------------------------------------------------------------------
(* The state machine.                                                      *)

NoCall == [kind |-> "-", api |-> "-", op |-> "-", method |-> "-",
           params |-> NoParams, limit |-> None]

HttpRequest(method, p) == [method |-> method, params |-> p]

Init ==
    /\ pc = "idle"
    /\ call = NoCall
    /\ sent = <<>>
    /\ received = <<>>
    /\ params = NoParams
    /\ all_items = <<>>
    /\ offset = 0
    /\ page_limit = 0
    /\ outcome = "pending"
    /\ retval = NoValue
    /\ retlist = <<>>
    /\ error = NoError
    /\ client = "none"
    /\ printed = <<>>

\* The caller invokes get, post, put or delete of SigfoxClient: the request
\* is sent.
CallClient(method) ==
    /\ pc = "idle"
    /\ call' = [NoCall EXCEPT !.kind = "client", !.method = method]
    /\ sent' = <<HttpRequest(method, NoParams)>>
    /\ pc' = "await"
    /\ UNCHANGED <<received, params, all_items, offset, page_limit, outcome,
                   retval, retlist, error>>
    /\ UNCHANGED <<client, printed>>

\* The caller invokes a facade operation: its first request is sent.
CallFacade(o) ==
    /\ pc = "idle"
    /\ call' = [NoCall EXCEPT !.kind = "facade", !.api = o.api, !.op = o.op,
                              !.method = o.method]
    /\ sent' = <<HttpRequest(Plan(call')[1], NoParams)>>
    /\ pc' = "await"
    /\ UNCHANGED <<received, params, all_items, offset, page_limit, outcome,
                   retval, retlist, error>>
    /\ UNCHANGED <<client, printed>>

\* The request in flight is answered: the request operation returns or raises,
\* and the call goes on to its next request or ends.
Receive(resp) ==
    /\ pc = "await"
    /\ call.kind \in {"client", "facade"}
    /\ received' = Append(received, resp)
    /\ LET res == Request(sent[Len(sent)].method, resp)
       IN IF res.error # NoError
          THEN /\ outcome' = "raised"
               /\ error' = res.error
               /\ pc' = "done"
               /\ UNCHANGED <<sent, retval>>
          ELSE IF Len(sent) < Len(Plan(call))
          THEN /\ sent' = Append(sent, HttpRequest(Plan(call)[Len(sent) + 1], NoParams))
               /\ UNCHANGED <<pc, outcome, error, retval>>
          ELSE /\ outcome' = "returned"
               /\ retval' = res.value
               /\ pc' = "done"
               /\ UNCHANGED <<sent, error>>
    /\ UNCHANGED <<call, params, all_items, offset, page_limit, retlist>>
    /\ UNCHANGED <<client, printed>>

\* get_paginated(path, params, limit) up to the loop: lines 169-174.
CallPaginated(p, limit) ==
    /\ pc = "idle"
    /\ call' = [NoCall EXCEPT !.kind = "paginated", !.method = "GET",
                              !.params = p, !.limit = limit]
    /\ params' = p
    /\ all_items' = <<>>
    /\ offset' = GetOr(p.offset, DefaultOffset)
    /\ page_limit' = GetOr(p.limit, DefaultPageLimit)
    /\ pc' = "loop"
    /\ UNCHANGED <<sent, received, outcome, retval, retlist, error>>
    /\ UNCHANGED <<client, printed>>

\* Top of the loop, lines 177-182: the pagination params are written and the
\* page is requested.
SendPage ==
    /\ pc = "loop"
    /\ Len(sent) < MaxRequests
    /\ params' = [offset |-> Some(offset), limit |-> Some(page_limit)]
    /\ sent' = Append(sent, HttpRequest("GET", params'))
    /\ pc' = "await"
    /\ UNCHANGED <<call, received, all_items, offset, page_limit, outcome,
                   retval, retlist, error>>
    /\ UNCHANGED <<client, printed>>

\* The page request is answered, lines 182-204: self.get returns or raises,
\* and the rest of the loop body runs.
ReceivePage(resp) ==
    /\ pc = "await"
    /\ call.kind = "paginated"
    /\ received' = Append(received, resp)
    /\ LET res == GetOrPost(resp)
           items == DataOf(res.value)
           all == Extend(all_items, items)
       IN IF res.error # NoError
          THEN /\ outcome' = "raised"
               /\ error' = res.error
               /\ pc' = "done"
               /\ UNCHANGED <<all_items, offset, retlist>>
          ELSE IF res.value.type # "object"
          THEN \* a list has no .get
               /\ outcome' = "raised"
               /\ error' = Raise("AttributeError", "", Text(resp), "")
               /\ pc' = "done"
               /\ UNCHANGED <<all_items, offset, retlist>>
          ELSE IF items = <<>>
          THEN /\ outcome' = "returned"
               /\ retlist' = all_items
               /\ pc' = "done"
               /\ UNCHANGED <<all_items, offset, error>>
          ELSE IF call.limit.has /\ Len(all) >= call.limit.v
          THEN /\ all_items' = Truncate(all, call.limit.v)
               /\ outcome' = "returned"
               /\ retlist' = all_items'
               /\ pc' = "done"
               /\ UNCHANGED <<offset, error>>
          ELSE IF ~Truthy(NextUrlOf(res.value))
          THEN /\ all_items' = all
               /\ outcome' = "returned"
               /\ retlist' = all
               /\ pc' = "done"
               /\ UNCHANGED <<offset, error>>
          ELSE /\ all_items' = all
               /\ offset' = NextOffset(offset, items, page_limit)
               /\ pc' = "loop"
               /\ UNCHANGED <<outcome, retlist, error>>
    /\ UNCHANGED <<call, sent, params, page_limit, retval>>
    /\ UNCHANGED <<client, printed>>

-----------------------------------------------------------------------------
(* The environment and the caller's inputs.                                *)

\* what a server (or the transport) can answer to a single request
Responses ==
    {HttpResponse(s, b) : s \in Statuses \ {204}, b \in SimpleBodies}
    \cup {HttpResponse(204, EmptyBody)}
    \cup {Failure(k) : k \in TransportFailures}

\* ... and to the request of a page after `off` items
PageResponses(off) ==
    Responses \cup {HttpResponse(200, b) : b \in PageBodies(off)}

PageSize == 2

\* the params mappings a caller passes to get_paginated
CallerParams ==
    {[offset |-> o, limit |-> l] :
        o \in {None} \cup {Some(n) : n \in 0..MaxOffset},
        l \in {None, Some(PageSize)}}

CallerLimits == {None} \cup {Some(n) : n \in 0..MaxLimit}

Next ==
    \/ \E m \in Methods : CallClient(m)
    \/ \E o \in FacadeOps : CallFacade(o)
    \/ \E resp \in PageResponses(0) : Receive(resp)
    \/ \E p \in CallerParams, l \in CallerLimits : CallPaginated(p, l)
    \/ SendPage
    \/ \E resp \in PageResponses(offset) : ReceivePage(resp)

Spec == Init /\ [][Next]_vars

-----------------------------------------------------------------------------
(* Properties of the HTTP request layer.                                   *)

LastResp == received[Len(received)]

\* a request operation of the HTTP layer, called directly, has ended
ClientDone == pc = "done" /\ call.kind = "client"

\* ... having received an HTTP response (and no transport failure)
ClientAnswered == ClientDone /\ ~IsFailure(LastResp)

\* C1: for get, post, put and delete, a response with status 401 raises
\* AuthenticationError, 403 raises AuthorizationError and 404 raises
\* NotFoundError; nothing is returned.
C1_AuthStatusesRaise ==
    (ClientAnswered /\ LastResp.status \in {401, 403, 404}) =>
        /\ outcome = "raised"
        /\ retval = NoValue
        /\ LastResp.status = 401 => error.kind = "AuthenticationError"
        /\ LastResp.status = 403 => error.kind = "AuthorizationError"
        /\ LastResp.status = 404 => error.kind = "NotFoundError"

C1_Witness ==
    /\ ClientAnswered
    /\ call.method = "GET"
    /\ LastResp.status = 404
    /\ error.kind = "NotFoundError"

\* C2: a response with a status >= 400 other than 401, 403 and 404 raises
\* APIError, whose status_code is the response status and whose response_body
\* is the raw response text.
C2_OtherErrorStatusesRaiseAPIError ==
    (ClientAnswered /\ LastResp.status >= 400
                    /\ LastResp.status \notin {401, 403, 404}) =>
        /\ outcome = "raised"
        /\ error.kind = "APIError"
        /\ error.status_code = LastResp.status
        /\ error.response_body = [raw |-> LastResp.body]

C2_Witness ==
    /\ ClientAnswered
    /\ call.method = "POST"
    /\ LastResp.status = 500
    /\ LastResp.body.message = "Not Found"
    /\ error.kind = "APIError"
    /\ error.status_code = 500

\* C3: every response with a status outside [200,299], the 3xx statuses
\* included, makes the request operation raise an error of the taxonomy; it
\* never returns a value.
C3_NonSuccessRaisesTaxonomyError ==
    (ClientAnswered /\ ~(LastResp.status >= 200 /\ LastResp.status <= 299)) =>
        /\ outcome = "raised"
        /\ error.kind \in Taxonomy

\* C4: for get, post, put and delete, a response with a status in [200,299]
\* returns the parsed JSON body, and the empty mapping when the body is empty.
C4_SuccessReturnsJsonOrEmptyMapping ==
    (ClientAnswered /\ LastResp.status >= 200 /\ LastResp.status <= 299) =>
        /\ LastResp.body.kind = "empty" =>
              outcome = "returned" /\ retval = EmptyMapping
        /\ LastResp.body.kind = "array" =>
              outcome = "returned" /\ retval = JsonArray
        /\ LastResp.body.kind = "object" =>
              /\ outcome = "returned"
              /\ retval.type = "object"
              /\ retval.message = LastResp.body.message
              /\ retval.hasData = LastResp.body.hasData
              /\ retval.data = LastResp.body.data

\* C5: when no HTTP response is received because of a transport-level
\* failure, the request operation raises NetworkError and nothing else.
C5_TransportFailureRaisesNetworkError ==
    (ClientDone /\ IsFailure(LastResp)) =>
        /\ outcome = "raised"
        /\ error.kind = "NetworkError"

-----------------------------------------------------------------------------
(* Properties of the facades.                                              *)

\* the request has failed: no response, or an error status
Failed(resp) == IsFailure(resp) \/ resp.status >= 400

\* the error raised reports the failure `resp`
Reports(err, resp) ==
    /\ err.kind # "-"
    /\ IF IsFailure(resp)
       THEN err.detail = [exc |-> resp.failure]
       ELSE err.detail \in {[msg |-> resp.body.message], [raw |-> resp.body]}

\* C6: a facade operation issues exactly one HTTP request per call; after a
\* failed request no second one is sent and the call raises that failure.
C6_FacadeIssuesOneRequest ==
    call.kind = "facade" =>
        /\ Len(sent) = 1
        /\ pc = "done" =>
              /\ Len(received) = 1
              /\ Failed(LastResp) => outcome = "raised" /\ Reports(error, LastResp)

C6_Witness ==
    /\ pc = "done"
    /\ call.kind = "facade"
    /\ call.api = "devices"
    /\ call.op = "update"
    /\ LastResp.failure = "ConnectTimeout"
    /\ outcome = "raised"
    /\ Len(sent) = 1

-----------------------------------------------------------------------------
(* Properties of get_paginated.                                            *)

Paginated == call.kind = "paginated"

\* the data array of the i-th answer
PageData(i) == received[i].body.data

RECURSIVE Concat(_)
\* the data arrays of the first n answers, concatenated
Concat(n) == IF n = 0 THEN <<>> ELSE Concat(n - 1) \o PageData(n)

\* the answer is a page: a 2xx response whose body is a JSON object
IsPage(resp) == ~IsFailure(resp) /\ IsSuccess(resp) /\ resp.body.kind = "object"

\* the page just fetched has zero items
LastPageEmpty == LastResp.body.data = <<>>

\* the paging metadata of the page just fetched has no next field
NoNextIndicator == ~LastResp.body.hasPaging \/ LastResp.body.next = Absent

\* the accumulated count has reached the caller's limit
LimitReached == call.limit.has /\ Len(Concat(Len(received))) >= call.limit.v

\* C7: get_paginated stops exactly when the page just fetched has zero items,
\* or its paging metadata has no further-page indicator, or the accumulated
\* count has reached the caller's limit, and in this last case returns
\* exactly limit items; it never returns more than limit items.
C7_StopsExactlyOnTheThreeConditions ==
    (Paginated /\ Len(received) > 0 /\ IsPage(LastResp)) =>
        /\ (pc = "done" /\ outcome = "returned") =>
              /\ LastPageEmpty \/ NoNextIndicator \/ LimitReached
              /\ (LimitReached /\ ~LastPageEmpty) => Len(retlist) = call.limit.v
              /\ call.limit.has => Len(retlist) <= call.limit.v
        /\ pc = "loop" => ~(LastPageEmpty \/ NoNextIndicator \/ LimitReached)

\* the first n answers are pages with sizes[i] items each, the next URL on
\* each of them but, when lastHasNext is FALSE, on the n-th
PagesAre(sizes, lastHasNext) ==
    /\ Len(received) >= Len(sizes)
    /\ \A i \in 1..Len(sizes) :
          /\ IsPage(received[i])
          /\ Len(PageData(i)) = sizes[i]
          /\ IF i < Len(sizes) \/ lastHasNext
             THEN received[i].body.hasPaging /\ Truthy(received[i].body.next)
             ELSE ~received[i].body.hasPaging \/ received[i].body.next = Absent

\* C8: get_paginated returns the items of the pages in the order received,
\* cut to the caller's limit.  For pages of 2, 2 and 1 items with no next
\* indicator on the last, a call without limit returns the 5 items after 3
\* requests; with limit 3 it returns the first 3 items and the third page is
\* never requested.
C8_ItemsInOrderReceived ==
    Paginated =>
        /\ (pc = "done" /\ outcome = "returned") =>
              retlist = IF call.limit.has /\ call.limit.v < Len(Concat(Len(received)))
                        THEN SubSeq(Concat(Len(received)), 1, call.limit.v)
                        ELSE Concat(Len(received))
        /\ (~call.limit.has /\ PagesAre(<<2, 2, 1>>, FALSE)) =>
              /\ pc = "done" /\ outcome = "returned"
              /\ Len(sent) = 3
              /\ retlist = PageData(1) \o PageData(2) \o PageData(3)
              /\ Len(retlist) = 5
        /\ (call.limit = Some(3) /\ PagesAre(<<2, 2>>, TRUE)) =>
              /\ pc = "done" /\ outcome = "returned"
              /\ Len(sent) = 2
              /\ retlist = PageData(1) \o SubSeq(PageData(2), 1, 1)

C8_Witness ==
    /\ Paginated
    /\ pc = "done"
    /\ ~call.limit.has
    /\ PagesAre(<<2, 2, 1>>, FALSE)
    /\ retlist = <<1, 2, 3, 4, 5>>
    /\ Len(sent) = 3

\* C9: every request of get_paginated carries an offset and a limit; the
\* first offset is the caller's (0 when absent), the limit is the caller's
\* (100 when absent) on every request, and each later offset is the previous
\* one plus the number of items of the previous page.
C9_OffsetAndLimitOnEveryRequest ==
    Paginated =>
        \A i \in 1..Len(sent) :
            /\ sent[i].params.offset.has
            /\ sent[i].params.limit.has
            /\ sent[i].params.limit.v =
                  IF call.params.limit.has THEN call.params.limit.v ELSE 100
            /\ i = 1 => sent[i].params.offset.v =
                  IF call.params.offset.has THEN call.params.offset.v ELSE 0
            /\ i > 1 => sent[i].params.offset.v =
                  sent[i - 1].params.offset.v + Len(PageData(i - 1))

C9_Witness ==
    /\ Paginated
    /\ call.params.offset = Some(1)
    /\ call.params.limit = Some(2)
    /\ Len(sent) = 3
    /\ Len(PageData(1)) = 1
    /\ Len(PageData(2)) = 2
    /\ sent[3].params.offset.v = 4

\* C10: get_paginated ends after a bounded number of requests whatever the
\* server answers.  Stated for the bound MaxRequests: the loop never stands
\* at its top, about to request one more page, with MaxRequests requests
\* already issued.  (The same statement fails for every value of MaxRequests.)
C10_EndsWithinMaxRequests ==
    ~(Paginated /\ pc = "loop" /\ Len(sent) >= MaxRequests)

\* the page just fetched has a next field in its paging object, whatever
\* the field holds
NextFieldPresent == LastResp.body.hasPaging /\ LastResp.body.next # Absent

\* C11: after a non-empty page, with the limit not reached, another page is
\* fetched whenever the paging object has a next field, whatever the field
\* holds: an empty string continues exactly as a non-empty string does.
C11_NextPresenceDecides ==
    ( /\ Paginated
      /\ Len(received) > 0
      /\ IsPage(LastResp)
      /\ ~LastPageEmpty
      /\ ~LimitReached
      /\ NextFieldPresent ) =>
        pc = "loop" \/ Len(sent) > Len(received)

-----------------------------------------------------------------------------
(* The Sigfox client object and the results of the facade operations.      *)
(* A facade is reached as an attribute of a Sigfox object, or is built     *)
(* directly on a SigfoxClient (every facade class is exported by           *)
(* sigfox.api).                                                            *)

MaxPolls == 2        \* calls of get_bulk_prediction a caller makes in a row

\* the facade attributes that Sigfox.__init__ sets
SigfoxAttributes ==
    {"api_users", "base_stations", "coverages", "devices", "device_types",
     "groups", "users"}

\* the name of a collection-reading operation
ListNames ==
    {"list", "messages", "list_messages", "list_devices",
     "callbacks_not_delivered", "geoloc_payloads"}

\* How an operation turns the parsed response into its result:
\*   "list"    [Model.model_validate(x) for x in response.get("data", [])]
\*   "rawlist" response.get("data", [])
\*   "record"  Model.model_validate(response)
\*   "raw"     response
\*   "none"    the response is dropped, None is returned
\* every PUT and DELETE operation drops the response
ResultKind_DropsPut(o) ==
    IF o.op = "list_devices" THEN "rawlist"
    ELSE IF o.op \in ListNames THEN "list"
    ELSE IF o.method \in {"PUT", "DELETE"} THEN "none"
    ELSE IF o.method = "POST"
    THEN IF o.api \in {"devices", "device_types"} THEN "record" ELSE "raw"
    ELSE "record"

ResultKind(o) ==
    IF o.op = "list_devices" THEN "rawlist"
    ELSE IF o.op \in ListNames THEN "list"
    ELSE IF o.method \in {"PUT", "DELETE"}
    THEN IF o.op = "renew_credential" THEN "raw" ELSE "none"
    ELSE IF o.method = "POST"
    THEN IF o.api \in {"devices", "device_types"} THEN "record" ELSE "raw"
    ELSE "record"

\* the model class that validates the response (or each of its items)
ModelOf(o) ==
    IF o.op \in {"messages", "list_messages"} THEN "Message"
    ELSE IF o.op = "callbacks_not_delivered" THEN "GroupCallbackError"
    ELSE IF o.op = "geoloc_payloads" THEN "GeolocPayload"
    ELSE IF o.op = "get_global_prediction" THEN "CoveragePrediction"
    ELSE IF o.op = "get_bulk_prediction" THEN "CoverageBulkResponse"
    ELSE IF o.op = "get_operator_redundancy" THEN "CoverageRedundancy"
    ELSE IF o.api = "devices" THEN "Device"
    ELSE IF o.api = "device_types" THEN "DeviceType"
    ELSE IF o.api = "groups" THEN "Group"
    ELSE IF o.api = "users" THEN "User"
    ELSE IF o.api = "api_users" THEN "ApiUser"
    ELSE "ContractInfo"

\* the models whose id field is required (id: str without a default)
IdRequired == {"Device", "DeviceType", "Group", "User", "ApiUser"}

\* A JSON object of a single-resource endpoint: the keys id, jobDone and
\* results, each present or absent.  jobDone holds the JSON literal.
NoResults == [has |-> FALSE, v |-> <<>>]
RecordBody(id, jobDone, results) ==
    [kind |-> "object", message |-> Absent, hasData |-> FALSE, data |-> <<>>,
     hasPaging |-> FALSE, next |-> Absent,
     id |-> id, jobDone |-> jobDone, results |-> results]

RecordBodies ==
    {RecordBody(id, jd, rs) :
        id \in {Absent, "1A2B3C"},
        jd \in {Absent, "false", "true"},
        rs \in {NoResults} \cup {Some(Items(0, n)) : n \in 0..MaxPageItems}}

\* response.get(key) for the keys id, jobDone and results
DocOf(resp) ==
    IF "id" \in DOMAIN resp.body
    THEN [id |-> resp.body.id, jobDone |-> resp.body.jobDone,
          results |-> resp.body.results]
    ELSE [id |-> Absent, jobDone |-> Absent, results |-> NoResults]

\* pydantic's reading of an optional JSON boolean, as Python prints it
ParseBool(literal) ==
    IF literal = "true" THEN "True"
    ELSE IF literal = "false" THEN "False"
    ELSE "None"

\* Model.model_validate(x) for one item of a collection
Validated(model, x) == [model |-> model, item |-> x]

\* [Model.model_validate(x) for x in items], in the order of items
ValidatedAll(model, items) == [i \in 1..Len(items) |-> Validated(model, items[i])]

\* the record a model class builds from a JSON object
Record(model, doc) ==
    [type |-> "model", model |-> model, id |-> doc.id,
     job_done |-> ParseBool(doc.jobDone),
     results |-> IF doc.results.has
                 THEN Some(ValidatedAll("CoverageBulkResult", doc.results.v))
                 ELSE NoResults]

PyNone == [type |-> "NoneType"]

\* The result of a facade operation: error, value and list.
Gives(v, l) == [error |-> NoError, value |-> v, list |-> l]
Fails(e) == [error |-> e, value |-> NoValue, list |-> <<>>]

\* a facade get that turns every error of the HTTP layer into "no record"
FacadeResult_Swallow(o, resp) ==
    LET res == Request(o.method, resp)
        kind == ResultKind(o)
    IN
    IF res.error # NoError THEN Gives(PyNone, <<>>)
    ELSE IF kind = "none" THEN Gives(PyNone, <<>>)
    ELSE IF kind = "raw" THEN Gives(res.value, <<>>)
    ELSE IF res.value.type # "object"
    THEN Fails(Raise(IF kind = "record" THEN "pydantic.ValidationError" ELSE "AttributeError",
                     "", Text(resp), ""))
    ELSE IF kind = "rawlist" THEN Gives([type |-> "list"], DataOf(res.value))
    ELSE IF kind = "list"
    THEN Gives([type |-> "list"], ValidatedAll(ModelOf(o), DataOf(res.value)))
    ELSE IF ModelOf(o) \in IdRequired /\ DocOf(resp).id = Absent
    THEN Fails(Raise("pydantic.ValidationError", "", Text(resp), ""))
    ELSE Gives(Record(ModelOf(o), DocOf(resp)), <<>>)

\* The facade method from the answer of its request on: an error of the
\* request operation propagates (no facade has a try block), a value is
\* turned into the result.
FacadeResult(o, resp) ==
    LET res == Request(o.method, resp)
        kind == ResultKind(o)
    IN
    IF res.error # NoError THEN Fails(res.error)
    ELSE IF kind = "none" THEN Gives(PyNone, <<>>)
    ELSE IF kind = "raw" THEN Gives(res.value, <<>>)
    ELSE IF res.value.type # "object"
    THEN Fails(Raise(IF kind = "record" THEN "pydantic.ValidationError" ELSE "AttributeError",
                     "", Text(resp), ""))
    ELSE IF kind = "rawlist" THEN Gives([type |-> "list"], DataOf(res.value))
    ELSE IF kind = "list"
    THEN Gives([type |-> "list"], ValidatedAll(ModelOf(o), DataOf(res.value)))
    ELSE IF ModelOf(o) \in IdRequired /\ DocOf(resp).id = Absent
    THEN Fails(Raise("pydantic.ValidationError", "", Text(resp), ""))
    ELSE Gives(Record(ModelOf(o), DocOf(resp)), <<>>)

\* the call record of a facade operation; n counts the calls made in a row
FacadeCall(kind, o, n) ==
    [kind |-> kind, api |-> o.api, op |-> o.op, method |-> o.method, n |-> n]

\* sigfox.<attribute>.<operation>(...) on a Sigfox object: the attribute is
\* looked up, then the facade method runs up to its request.
CallSigfox(o) ==
    /\ pc = "idle"
    /\ call' = FacadeCall("sigfox", o, 1)
    /\ IF o.api \in SigfoxAttributes
       THEN /\ sent' = <<HttpRequest(o.method, NoParams)>>
            /\ pc' = "await"
            /\ UNCHANGED <<outcome, error>>
       ELSE /\ outcome' = "raised"
            /\ error' = Raise("AttributeError", "'Sigfox' object has no attribute ",
                              [msg |-> o.api], "")
            /\ pc' = "done"
            /\ UNCHANGED sent
    /\ UNCHANGED <<received, params, all_items, offset, page_limit, retval, retlist>>
    /\ UNCHANGED <<client, printed>>

\* <Facade>API(client).<operation>(...): the facade built directly.
CallApi(o) ==
    /\ pc = "idle"
    /\ call' = FacadeCall("api", o, 1)
    /\ sent' = <<HttpRequest(o.method, NoParams)>>
    /\ pc' = "await"
    /\ UNCHANGED <<received, params, all_items, offset, page_limit, outcome,
                   retval, retlist, error>>
    /\ UNCHANGED <<client, printed>>

\* a get_bulk_prediction that requests again by itself while the job is not done
Answer_Polling(resp) ==
    /\ pc = "await"
    /\ call.kind \in {"sigfox", "api"}
    /\ received' = Append(received, resp)
    /\ LET r == FacadeResult(call, resp)
       IN IF /\ call.op = "get_bulk_prediction"
             /\ r.error = NoError
             /\ r.value.job_done # "True"
             /\ Len(sent) < MaxRequests
          THEN /\ sent' = Append(sent, HttpRequest(call.method, NoParams))
               /\ UNCHANGED <<pc, outcome, error, retval, retlist>>
          ELSE /\ outcome' = IF r.error # NoError THEN "raised" ELSE "returned"
               /\ error' = r.error
               /\ retval' = r.value
               /\ retlist' = r.list
               /\ pc' = "done"
               /\ UNCHANGED sent
    /\ UNCHANGED <<call, params, all_items, offset, page_limit>>
    /\ UNCHANGED <<client, printed>>

\* The request of the facade method is answered: the method returns or raises.
Answer(resp) ==
    /\ pc = "await"
    /\ call.kind \in {"sigfox", "api"}
    /\ received' = Append(received, resp)
    /\ LET r == FacadeResult(call, resp)
       IN /\ outcome' = IF r.error # NoError THEN "raised" ELSE "returned"
          /\ error' = r.error
          /\ retval' = r.value
          /\ retlist' = r.list
    /\ pc' = "done"
    /\ UNCHANGED <<call, sent, params, all_items, offset, page_limit>>
    /\ UNCHANGED <<client, printed>>

\* The caller of get_bulk_prediction, told that the job is not done, calls
\* the operation again.
PollAgain ==
    /\ pc = "done"
    /\ call.kind \in {"sigfox", "api"}
    /\ call.op = "get_bulk_prediction"
    /\ outcome = "returned"
    /\ retval.job_done # "True"
    /\ call.n < MaxPolls
    /\ call' = [call EXCEPT !.n = @ + 1]
    /\ sent' = Append(sent, HttpRequest(call.method, NoParams))
    /\ pc' = "await"
    /\ outcome' = "pending"
    /\ retval' = NoValue
    /\ UNCHANGED <<received, params, all_items, offset, page_limit, retlist, error>>
    /\ UNCHANGED <<client, printed>>

\* The caller of renew_credential calls it once more, whatever the last call
\* gave.
RenewAgain ==
    /\ pc = "done"
    /\ call.kind \in {"sigfox", "api"}
    /\ call.op = "renew_credential"
    /\ call.n < MaxPolls
    /\ call' = [call EXCEPT !.n = @ + 1]
    /\ sent' = Append(sent, HttpRequest(call.method, NoParams))
    /\ pc' = "await"
    /\ outcome' = "pending"
    /\ retval' = NoValue
    /\ error' = NoError
    /\ UNCHANGED <<received, params, all_items, offset, page_limit, retlist>>
    /\ UNCHANGED <<client, printed>>

\* what a server can answer to the request of a facade operation
FacadeResponses ==
    Responses
    \cup {HttpResponse(200, b) : b \in PageBodies(0)}
    \cup {HttpResponse(200, b) : b \in RecordBodies}

SigfoxNext ==
    \/ \E o \in FacadeOps : CallSigfox(o)
    \/ \E o \in FacadeOps : CallApi(o)
    \/ \E resp \in FacadeResponses : Answer(resp)
    \/ PollAgain

SigfoxSpec == Init /\ [][SigfoxNext]_vars

\* renew_credential called, answered and called again, through a Sigfox
\* object or through ApiUsersAPI
RenewNext ==
    \/ CallSigfox(Op("api_users", "renew_credential", "PUT"))
    \/ CallApi(Op("api_users", "renew_credential", "PUT"))
    \/ \E resp \in Responses : Answer(resp)
    \/ RenewAgain

RenewSpec == Init /\ [][RenewNext]_vars

-----------------------------------------------------------------------------
(* Properties of the facades.                                              *)

FacadeCalled == call.kind \in {"sigfox", "api"}

\* the endpoint answered 200 with {"data": []}
EmptyCollection(resp) ==
    /\ ~IsFailure(resp)
    /\ resp.status = 200
    /\ resp.body.kind = "object"
    /\ resp.body.hasData
    /\ resp.body.data = <<>>

\* C12: every list operation reached through the Sigfox client returns an
\* empty list and raises nothing when the endpoint answers 200 with
\* {"data": []}; the call never ends otherwise than by that answer.
C12_ListOfEmptyCollectionIsEmpty ==
    (call.kind = "sigfox" /\ call.op \in ListNames /\ pc = "done") =>
        /\ Len(received) = 1
        /\ EmptyCollection(received[1]) =>
              outcome = "returned" /\ retval = [type |-> "list"] /\ retlist = <<>>

\* the taxonomy error that stands for an error status
KindOfStatus(status) ==
    IF status = 401 THEN "AuthenticationError"
    ELSE IF status = 403 THEN "AuthorizationError"
    ELSE IF status = 404 THEN "NotFoundError"
    ELSE "APIError"

\* C13: a facade get-by-id operation answered 404, 401, 403 or 500 raises
\* NotFoundError, AuthenticationError, AuthorizationError or APIError with
\* status_code 500: the very error the HTTP layer raised, and no record is
\* returned.
C13_GetPassesErrorsThrough ==
    ( /\ FacadeCalled
      /\ call.op = "get"
      /\ pc = "done"
      /\ Len(received) > 0
      /\ ~IsFailure(LastResp)
      /\ LastResp.status \in {401, 403, 404, 500} ) =>
        /\ outcome = "raised"
        /\ error.kind = KindOfStatus(LastResp.status)
        /\ LastResp.status = 500 => error.status_code = 500
        /\ error = HandleError(LastResp)
        /\ retval = NoValue
        /\ retlist = <<>>

C13_Witness ==
    /\ call.kind = "sigfox"
    /\ call.api = "groups"
    /\ call.op = "get"
    /\ pc = "done"
    /\ LastResp.status = 500
    /\ LastResp.body = ObjectBody("Not Found")
    /\ error.kind = "APIError"
    /\ error.status_code = 500

-----------------------------------------------------------------------------
(* The requests the facades build: query parameters and JSON bodies.       *)

MaxArgs == 2         \* optional filter arguments a caller sets in one call

\* Python values, by type
PNone == [t |-> "None"]
PStr(s) == [t |-> "str", s |-> s]
PInt(n) == [t |-> "int", n |-> n]
PBool(b) == [t |-> "bool", b |-> b]
PList(l) == [t |-> "list", l |-> l]          \* a list of str
PIntList(l) == [t |-> "intlist", il |-> l]   \* a list of int

\* bool(v): the truth value `if v:` tests
Bool(v) ==
    CASE v.t = "None" -> FALSE
      [] v.t = "str" -> v.s # ""
      [] v.t = "int" -> v.n # 0
      [] v.t = "bool" -> v.b
      [] v.t = "list" -> v.l # <<>>
      [] v.t = "intlist" -> v.il # <<>>

RECURSIVE Join(_, _)
\* sep.join(l)
Join(l, sep) ==
    IF l = <<>> THEN ""
    ELSE IF Len(l) = 1 THEN l[1]
    ELSE l[1] \o sep \o Join(Tail(l), sep)

\* (str(t) for t in types)
Strs(il) == [i \in 1..Len(il) |-> ToString(il[i])]

\* One argument of a facade method that becomes a query parameter: the name
\* of the argument, the key written to params, the type of the argument and
\* the test that guards the write ("notnone": is not None, "truthy": if x,
\* "always": written in the dict literal).
P(arg, key, type, test) == [arg |-> arg, key |-> key, type |-> type, test |-> test]

Limit == P("limit", "limit", "int", "notnone")
Offset == P("offset", "offset", "int", "notnone")
Since == P("since", "since", "int", "notnone")
Before == P("before", "before", "int", "notnone")
GroupIds == P("group_ids", "groupIds", "strlist", "truthy")
Deep == P("deep", "deep", "bool", "truthy")
Authorizations == P("authorizations", "authorizations", "bool", "truthy")
Fields == P("fields", "fields", "str", "truthy")
Sort == P("sort", "sort", "str", "truthy")
Name == P("name", "name", "str", "truthy")
PageId == P("page_id", "pageId", "str", "truthy")
DeviceTypeId == P("device_type_id", "deviceTypeId", "str", "truthy")
Lat == P("lat", "lat", "req", "always")
Lng == P("lng", "lng", "req", "always")

\* the query parameters of every operation, in the order the code writes them
ParamsOf(o) ==
    CASE o.api = "devices" /\ o.op = "list" ->
            <<Limit, Offset, DeviceTypeId, GroupIds, Deep, Sort>>
      [] o.api = "devices" /\ o.op = "messages" ->
            <<Limit, Offset, Since, Before>>
      [] o.api = "device_types" /\ o.op = "list" ->
            <<Limit, Offset, Name, GroupIds, Deep, Sort>>
      [] o.api = "groups" /\ o.op = "list" ->
            <<Limit, Offset, P("parent_ids", "parentIds", "strlist", "truthy"),
              Deep, Name, P("types", "types", "intlist", "truthy"), Fields,
              P("action", "action", "str", "truthy"), Sort, Authorizations, PageId>>
      [] o.api = "groups" /\ o.op = "callbacks_not_delivered" ->
            <<Since, Before, Limit, Offset>>
      [] o.api = "groups" /\ o.op = "geoloc_payloads" ->
            <<Limit, Offset, PageId>>
      [] o.api = "users" /\ o.op = "list" ->
            <<Limit, Offset, GroupIds, Deep, Fields, Sort, Authorizations>>
      [] o.api = "api_users" /\ o.op = "list" ->
            <<Limit, Offset, P("profile_id", "profileId", "str", "truthy"),
              GroupIds, Fields, Authorizations>>
      [] o.api \in {"groups", "users", "api_users", "contract_infos"} /\ o.op = "get" ->
            <<Fields, Authorizations>>
      [] o.api = "base_stations" /\ o.op = "list_messages" ->
            <<Fields, Since, Before, Limit, Offset>>
      [] o.api = "contract_infos" /\ o.op = "list" ->
            <<Limit, Offset, Name, P("group_id", "groupId", "str", "truthy"),
              P("group_type", "groupType", "int", "notnone"), Deep,
              P("up", "up", "bool", "truthy"),
              P("order_ids", "orderIds", "str", "truthy"),
              P("contract_ids", "contractIds", "str", "truthy"),
              P("from_time", "fromTime", "int", "notnone"),
              P("to_time", "toTime", "int", "notnone"),
              P("token_duration", "tokenDuration", "int", "notnone"),
              P("pricing_model", "pricingModel", "int", "notnone"),
              P("subscription_plan", "subscriptionPlan", "int", "notnone"),
              Fields, Authorizations, PageId>>
      [] o.api = "contract_infos" /\ o.op = "list_devices" ->
            <<DeviceTypeId, Fields, Limit, PageId>>
      [] o.api = "coverages" /\ o.op = "get_global_prediction" ->
            <<Lat, Lng, P("radius", "radius", "int", "notnone"),
              P("group_id", "groupId", "str", "notnone")>>
      [] o.api = "coverages" /\ o.op = "get_operator_redundancy" ->
            <<Lat, Lng, P("operator_id", "operatorId", "str", "notnone"),
              P("device_situation", "deviceSituation", "str", "notnone"),
              P("device_class_id", "deviceClassId", "int", "notnone")>>
      [] OTHER -> <<>>

\* the guard without its `is not None` tests
Passes_NoNoneTest(d, v) == d.test # "truthy" \/ Bool(v)

\* the guard with the flags written whatever their value
Passes_FlagsAlways(d, v) ==
    CASE d.test = "always" -> TRUE
      [] d.test = "notnone" -> v.t # "None"
      [] d.test = "truthy" -> d.type = "bool" \/ Bool(v)

\* the guard of the write of one parameter
Passes(d, v) ==
    CASE d.test = "always" -> TRUE
      [] d.test = "notnone" -> v.t # "None"
      [] d.test = "truthy" -> Bool(v)

\* the argument written as it is, a list as a list and a flag as a bool
Convert_Raw(d, v) == v

\* the value written to params for an argument that passed its guard
Convert(d, v) ==
    IF d.type = "strlist" THEN PStr(Join(v.l, ","))
    ELSE IF d.type = "intlist" THEN PStr(Join(Strs(v.il), ","))
    ELSE IF d.type = "bool" THEN PStr("true")
    ELSE v

Entry(key, value) == [key |-> key, value |-> value]

RECURSIVE BuildParams(_, _)
\* the params mapping of a facade method, in insertion order
BuildParams(ds, args) ==
    IF ds = <<>> THEN <<>>
    ELSE LET d == Head(ds)
         IN (IF Passes(d, args[d.arg])
             THEN <<Entry(d.key, Convert(d, args[d.arg]))>>
             ELSE <<>>) \o BuildParams(Tail(ds), args)

\* httpx's text form of a primitive query value
Primitive(v) ==
    CASE v.t = "str" -> v.s
      [] v.t = "int" -> ToString(v.n)
      [] v.t = "bool" -> IF v.b THEN "true" ELSE "false"
      [] v.t = "None" -> ""

RECURSIVE Wire(_)
\* httpx's query string for a params mapping, as key/text items: a list
\* value gives one item per element, any other value one item
Wire(ps) ==
    IF ps = <<>> THEN <<>>
    ELSE LET p == Head(ps)
         IN (CASE p.value.t = "list" ->
                    [i \in 1..Len(p.value.l) |-> Entry(p.key, p.value.l[i])]
               [] p.value.t = "intlist" ->
                    [i \in 1..Len(p.value.il) |-> Entry(p.key, ToString(p.value.il[i]))]
               [] OTHER -> <<Entry(p.key, Primitive(p.value))>>)
            \o Wire(Tail(ps))

\* One field of a payload model: the words of its name, the alias declared
\* by Field(alias=...) (Absent when the field declares none), its type and
\* whether it is required.
F(words, alias, type, required) ==
    [words |-> words, alias |-> alias, type |-> type, required |-> required]

\* the Python name of a field
Snake(words) == Join(words, "_")

\* the key of a field in a dump without by_alias
WireKey_ByName(f) == Snake(f.words)

\* the key of a field in model_dump(by_alias=True)
WireKey(f) == IF f.alias = Absent THEN Snake(f.words) ELSE f.alias

\* the payload models, their fields in declaration order
FieldsOf(model) ==
    CASE model = "DeviceCreate" ->
            <<F(<<"id">>, Absent, "str", TRUE),
              F(<<"name">>, Absent, "str", TRUE),
              F(<<"device", "type", "id">>, "deviceTypeId", "str", TRUE),
              F(<<"pac">>, Absent, "str", TRUE),
              F(<<"lat">>, Absent, "float", FALSE),
              F(<<"lng">>, Absent, "float", FALSE),
              F(<<"product", "certificate">>, "productCertificate", "str", FALSE),
              F(<<"prototype">>, Absent, "bool", FALSE),
              F(<<"automatic", "renewal">>, "automaticRenewal", "bool", FALSE),
              F(<<"activable">>, Absent, "bool", FALSE)>>
      [] model = "DeviceUpdate" ->
            <<F(<<"name">>, Absent, "str", FALSE),
              F(<<"lat">>, Absent, "float", FALSE),
              F(<<"lng">>, Absent, "float", FALSE),
              F(<<"product", "certificate">>, "productCertificate", "str", FALSE),
              F(<<"prototype">>, Absent, "bool", FALSE),
              F(<<"automatic", "renewal">>, "automaticRenewal", "bool", FALSE),
              F(<<"activable">>, Absent, "bool", FALSE)>>
      [] model = "DeviceTypeCreate" ->
            <<F(<<"name">>, Absent, "str", TRUE),
              F(<<"group", "id">>, "groupId", "str", TRUE),
              F(<<"description">>, Absent, "str", FALSE),
              F(<<"keep", "alive">>, "keepAlive", "int", FALSE),
              F(<<"alert", "email">>, "alertEmail", "str", FALSE),
              F(<<"payload", "type">>, "payloadType", "int", FALSE),
              F(<<"payload", "config">>, "payloadConfig", "str", FALSE),
              F(<<"downlink", "mode">>, "downlinkMode", "int", FALSE),
              F(<<"downlink", "data", "string">>, "downlinkDataString", "str", FALSE),
              F(<<"automatic", "renewal">>, "automaticRenewal", "bool", FALSE)>>
      [] model = "DeviceTypeUpdate" ->
            <<F(<<"name">>, Absent, "str", FALSE),
              F(<<"description">>, Absent, "str", FALSE),
              F(<<"keep", "alive">>, "keepAlive", "int", FALSE),
              F(<<"alert", "email">>, "alertEmail", "str", FALSE),
              F(<<"payload", "type">>, "payloadType", "int", FALSE),
              F(<<"payload", "config">>, "payloadConfig", "str", FALSE),
              F(<<"downlink", "mode">>, "downlinkMode", "int", FALSE),
              F(<<"downlink", "data", "string">>, "downlinkDataString", "str", FALSE),
              F(<<"automatic", "renewal">>, "automaticRenewal", "bool", FALSE)>>
      [] model = "GroupCreate" ->
            <<F(<<"name">>, Absent, "str", TRUE),
              F(<<"description">>, Absent, "str", TRUE),
              F(<<"type">>, Absent, "int", TRUE),
              F(<<"timezone">>, Absent, "str", TRUE),
              F(<<"parent", "id">>, "parentId", "str", TRUE),
              F(<<"technical", "email">>, "technicalEmail", "str", FALSE),
              F(<<"account", "id">>, "accountId", "str", FALSE),
              F(<<"network", "operator", "id">>, "networkOperatorId", "str", FALSE),
              F(<<"country", "iso", "alpha3">>, "countryISOAlpha3", "str", FALSE),
              F(<<"billable">>, Absent, "bool", FALSE),
              F(<<"max", "prototype", "allowed">>, "maxPrototypeAllowed", "int", FALSE)>>
      [] model = "GroupUpdate" ->
            <<F(<<"name">>, Absent, "str", FALSE),
              F(<<"description">>, Absent, "str", FALSE),
              F(<<"type">>, Absent, "int", FALSE),
              F(<<"timezone">>, Absent, "str", FALSE),
              F(<<"billable">>, Absent, "bool", FALSE),
              F(<<"technical", "email">>, "technicalEmail", "str", FALSE),
              F(<<"max", "prototype", "allowed">>, "maxPrototypeAllowed", "int", FALSE)>>
      [] model = "UserCreate" ->
            <<F(<<"group", "id">>, "groupId", "str", TRUE),
              F(<<"first", "name">>, "firstName", "str", TRUE),
              F(<<"last", "name">>, "lastName", "str", TRUE),
              F(<<"email">>, Absent, "str", TRUE),
              F(<<"timezone">>, Absent, "str", TRUE),
              F(<<"role", "ids">>, "roleIds", "strlist", TRUE)>>
      [] model = "UserUpdate" ->
            <<F(<<"first", "name">>, "firstName", "str", FALSE),
              F(<<"last", "name">>, "lastName", "str", FALSE),
              F(<<"email">>, Absent, "str", FALSE),
              F(<<"timezone">>, Absent, "str", FALSE),
              F(<<"role", "ids">>, "roleIds", "strlist", FALSE)>>
      [] model = "ApiUserCreate" ->
            <<F(<<"group", "id">>, "groupId", "str", TRUE),
              F(<<"name">>, Absent, "str", TRUE),
              F(<<"timezone">>, Absent, "str", TRUE),
              F(<<"profile", "ids">>, "profileIds", "strlist", TRUE)>>
      [] model = "ApiUserUpdate" ->
            <<F(<<"name">>, Absent, "str", FALSE),
              F(<<"timezone">>, Absent, "str", FALSE),
              F(<<"profile", "ids">>, "profileIds", "strlist", FALSE)>>
      [] model = "CoverageBulkRequest" ->
            <<F(<<"locations">>, Absent, "strlist", TRUE),
              F(<<"radius">>, Absent, "int", FALSE),
              F(<<"group", "id">>, "groupId", "str", FALSE)>>
      [] model = "roles" ->
            <<F(<<"role", "ids">>, "roleIds", "strlist", TRUE)>>
      [] model = "profiles" ->
            <<F(<<"profile", "ids">>, "profileIds", "strlist", TRUE)>>
      [] OTHER -> <<>>

\* the payload an operation takes: the model of its data argument, "roles" /
\* "profiles" for the dict literals of add_roles / add_profiles, "-" for none
PayloadOf(o) ==
    CASE o.op = "add_roles" -> "roles"
      [] o.op = "add_profiles" -> "profiles"
      [] o.op = "start_bulk_prediction" -> "CoverageBulkRequest"
      [] o.op \in {"create", "update"} ->
            (CASE o.api = "devices" -> "Device"
               [] o.api = "device_types" -> "DeviceType"
               [] o.api = "groups" -> "Group"
               [] o.api = "users" -> "User"
               [] o.api = "api_users" -> "ApiUser")
            \o (IF o.op = "create" THEN "Create" ELSE "Update")
      [] OTHER -> "-"

RECURSIVE Dump(_, _)
\* data.model_dump(by_alias=True, exclude_none=True)
Dump(fs, args) ==
    IF fs = <<>> THEN <<>>
    ELSE LET f == Head(fs)
         IN (IF args[Snake(f.words)].t # "None"
             THEN <<Entry(WireKey(f), args[Snake(f.words)])>>
             ELSE <<>>) \o Dump(Tail(fs), args)

\* the JSON body of the request of an operation
BuildBody(o, args) ==
    IF PayloadOf(o) = "roles" THEN <<Entry("roleIds", args["role_ids"])>>
    ELSE IF PayloadOf(o) = "profiles" THEN <<Entry("profileIds", args["profile_ids"])>>
    ELSE Dump(FieldsOf(PayloadOf(o)), args)

\* The request a facade method hands to the HTTP layer, and the query items
\* httpx makes of its params.
FacadeRequest(o, args) ==
    [method |-> o.method,
     params |-> BuildParams(ParamsOf(o), args),
     query |-> Wire(BuildParams(ParamsOf(o), args)),
     body |-> BuildBody(o, args)]

-----------------------------------------------------------------------------
(* The arguments a caller passes.                                          *)

\* a value for a set argument, by type; i picks one of up to three
ValueOfType(type, i) ==
    CASE type = "int" -> IF i = 1 THEN PInt(0) ELSE PInt(1)
      [] type = "str" -> IF i = 1 THEN PStr("") ELSE PStr("x")
      [] type = "strlist" ->
            IF i = 1 THEN PList(<<>>)
            ELSE IF i = 2 THEN PList(<<"a">>) ELSE PList(<<"a", "b">>)
      [] type = "intlist" ->
            IF i = 1 THEN PIntList(<<>>)
            ELSE IF i = 2 THEN PIntList(<<2>>) ELSE PIntList(<<2, 8>>)
      [] type = "bool" -> PBool(TRUE)
      [] type = "float" -> PInt(48)
      [] type = "req" -> PInt(48)

\* the default of an optional argument
DefaultOf(type) ==
    IF type = "bool" THEN PBool(FALSE)
    ELSE IF type = "req" THEN PInt(48)
    ELSE PNone

Picks == 1..3

\* the descriptor of the argument `a` among ds
ParamNamed(ds, a) == ds[CHOOSE i \in DOMAIN ds : ds[i].arg = a]

\* the keyword arguments of a call that sets at most MaxArgs optional ones
ParamChoices(ds) ==
    LET names == {ds[i].arg : i \in DOMAIN ds}
        optional == {ds[i].arg : i \in {j \in DOMAIN ds : ds[j].test # "always"}}
    IN UNION {
          {[a \in names |->
               IF a \in S THEN ValueOfType(ParamNamed(ds, a).type, g[a])
               ELSE DefaultOf(ParamNamed(ds, a).type)] : g \in [S -> Picks]}
          : S \in {T \in SUBSET optional : Cardinality(T) <= MaxArgs}}

\* the field named n among fs
FieldNamed(fs, n) == fs[CHOOSE i \in DOMAIN fs : Snake(fs[i].words) = n]

\* the value a caller gives a payload field that it sets
FieldValue(f) ==
    IF f.type = "bool" THEN PBool(FALSE)
    ELSE IF f.type = "strlist" THEN PList(<<"a", "b">>)
    ELSE ValueOfType(f.type, 2)

\* the payloads of a model: the required fields set, any of the others set
PayloadChoices(fs) ==
    LET names == {Snake(fs[i].words) : i \in DOMAIN fs}
        optional == {Snake(fs[i].words) : i \in {j \in DOMAIN fs : ~fs[j].required}}
    IN {[n \in names |->
            IF n \in S \/ FieldNamed(fs, n).required
            THEN FieldValue(FieldNamed(fs, n)) ELSE PNone]
        : S \in SUBSET optional}

ArgChoices(o) ==
    IF PayloadOf(o) # "-" THEN PayloadChoices(FieldsOf(PayloadOf(o)))
    ELSE ParamChoices(ParamsOf(o))

RequestCall(o, args) ==
    [kind |-> "request", api |-> o.api, op |-> o.op, method |-> o.method,
     args |-> args]

RequestCalls == UNION {{RequestCall(o, a) : a \in ArgChoices(o)} : o \in FacadeOps}

\* A facade method is about to be called with some arguments.
RequestInit ==
    /\ pc = "idle"
    /\ call \in RequestCalls
    /\ sent = <<>>
    /\ received = <<>>
    /\ params = NoParams
    /\ all_items = <<>>
    /\ offset = 0
    /\ page_limit = 0
    /\ outcome = "pending"
    /\ retval = NoValue
    /\ retlist = <<>>
    /\ error = NoError
    /\ client = "none"
    /\ printed = <<>>

\* The facade method runs up to its call of the HTTP layer: the request is
\* built and sent.
Build ==
    /\ pc = "idle"
    /\ call.kind = "request"
    /\ sent' = <<FacadeRequest(call, call.args)>>
    /\ pc' = "await"
    /\ UNCHANGED <<call, received, params, all_items, offset, page_limit,
                   outcome, retval, retlist, error>>
    /\ UNCHANGED <<client, printed>>

RequestNext == Build

RequestSpec == RequestInit /\ [][RequestNext]_vars

-----------------------------------------------------------------------------
(* Properties of the requests built.                                       *)

\* a request has been built by the facade method called
Built == call.kind = "request" /\ pc = "await"

\* the number of entries with this key
Count(entries, key) == Cardinality({i \in DOMAIN entries : entries[i].key = key})

\* the value of the first entry with this key
Lookup(entries, key) ==
    entries[CHOOSE i \in DOMAIN entries :
               entries[i].key = key /\ \A j \in 1..(i - 1) : entries[j].key # key].value

\* no entry of the mapping is None
NoNull(entries) == \A i \in DOMAIN entries : entries[i].value.t # "None"

\* C14: a filter or update field whose value is None does not appear in the
\* query parameters or in the body of the request, and no parameter or body
\* entry is null, whatever the other arguments are.
C14_NoneIsOmitted ==
    Built =>
        /\ \A i \in DOMAIN ParamsOf(call) :
              LET d == ParamsOf(call)[i]
              IN call.args[d.arg].t = "None" =>
                    /\ Count(sent[1].params, d.key) = 0
                    /\ Count(sent[1].query, d.key) = 0
        /\ \A i \in DOMAIN FieldsOf(PayloadOf(call)) :
              LET f == FieldsOf(PayloadOf(call))[i]
              IN call.args[Snake(f.words)].t = "None" =>
                    /\ Count(sent[1].body, WireKey(f)) = 0
                    /\ Count(sent[1].body, Snake(f.words)) = 0
        /\ NoNull(sent[1].params)
        /\ NoNull(sent[1].body)
        /\ \A i \in DOMAIN sent[1].query :
              sent[1].query[i].value = "" =>
                 \E j \in DOMAIN ParamsOf(call) :
                    /\ ParamsOf(call)[j].key = sent[1].query[i].key
                    /\ call.args[ParamsOf(call)[j].arg] = PStr("")

C14_Witness ==
    /\ Built
    /\ call.api = "contract_infos"
    /\ call.op = "list"
    /\ call.args["group_type"] = PInt(0)
    /\ call.args["from_time"] = PInt(1)
    /\ call.args["name"] = PNone
    /\ sent[1].query = <<Entry("groupType", "0"), Entry("fromTime", "1")>>

\* an argument that takes an array
IsArray(d) == d.type \in {"strlist", "intlist"}

\* the elements of an array argument, as text
ElemsOf(v) == IF v.t = "list" THEN v.l ELSE Strs(v.il)

\* the filter d goes out as one query item, the elements joined by commas
SentOnceJoined(d) ==
    /\ Count(sent[1].query, d.key) = 1
    /\ Lookup(sent[1].query, d.key) = Join(ElemsOf(call.args[d.arg]), ",")

\* C15 as stated: a list call given an array-valued filter sends it as one
\* query parameter under its wire name, the elements joined by commas in the
\* given order, exactly once; whatever the array is.
C15_ArrayFilterSentOnce ==
    Built =>
        \A i \in DOMAIN ParamsOf(call) :
            LET d == ParamsOf(call)[i]
            IN (IsArray(d) /\ call.args[d.arg].t # "None") => SentOnceJoined(d)

\* C15: a list call given a non-empty array-valued filter sends it as one
\* query parameter under its wire name, the elements joined by commas in the
\* given order, exactly once; an empty array is not sent at all, like None.
C15_NonEmptyArrayFilterSentOnce ==
    Built =>
        \A i \in DOMAIN ParamsOf(call) :
            LET d == ParamsOf(call)[i]
            IN (IsArray(d) /\ call.args[d.arg].t # "None") =>
                   IF ElemsOf(call.args[d.arg]) # <<>>
                   THEN SentOnceJoined(d)
                   ELSE Count(sent[1].query, d.key) = 0

C15_Witness ==
    /\ Built
    /\ call.api = "groups"
    /\ call.op = "list"
    /\ call.args["parent_ids"] = PList(<<"a", "b">>)
    /\ call.args["types"] = PIntList(<<2, 8>>)
    /\ sent[1].query = <<Entry("parentIds", "a,b"), Entry("types", "2,8")>>

\* C16: a boolean flag (deep, authorizations, up) that is False is absent
\* from the request; one that is True is present once, with the literal
\* string "true" as its value.
C16_FlagTrueOrAbsent ==
    Built =>
        \A i \in DOMAIN ParamsOf(call) :
            LET d == ParamsOf(call)[i]
            IN d.type = "bool" =>
                  IF call.args[d.arg].b
                  THEN /\ Count(sent[1].params, d.key) = 1
                       /\ Lookup(sent[1].params, d.key) = PStr("true")
                       /\ Count(sent[1].query, d.key) = 1
                       /\ Lookup(sent[1].query, d.key) = "true"
                  ELSE /\ Count(sent[1].params, d.key) = 0
                       /\ Count(sent[1].query, d.key) = 0

C16_Witness ==
    /\ Built
    /\ call.api = "users"
    /\ call.op = "list"
    /\ call.args["deep"] = PBool(TRUE)
    /\ call.args["authorizations"] = PBool(FALSE)
    /\ call.args["limit"] = PInt(1)
    /\ sent[1].params = <<Entry("limit", PInt(1)), Entry("deep", PStr("true"))>>

\* the field is set in the payload
IsSet(f) == call.args[Snake(f.words)].t # "None"

\* the name a field has on the wire: the declared alias of a field whose
\* Python name has several words, the name itself of a one-word field
WireName(f) == IF Len(f.words) > 1 THEN f.alias ELSE f.words[1]

\* C17: the body sent by a create operation holds exactly the set fields of
\* its payload, each once under its wire name with the value given (groupId
\* for group_id), never under its Python name, and no other key.
C17_CreateBodyIsTheSetFields ==
    (Built /\ call.op = "create") =>
        LET fs == FieldsOf(PayloadOf(call))
        IN /\ \A i \in DOMAIN fs :
                 /\ Len(fs[i].words) > 1 =>
                       /\ fs[i].alias # Absent
                       /\ Count(sent[1].body, Snake(fs[i].words)) = 0
                 /\ IF IsSet(fs[i])
                    THEN /\ Count(sent[1].body, WireName(fs[i])) = 1
                         /\ Lookup(sent[1].body, WireName(fs[i]))
                               = call.args[Snake(fs[i].words)]
                    ELSE Count(sent[1].body, WireName(fs[i])) = 0
           /\ Len(sent[1].body) = Cardinality({i \in DOMAIN fs : IsSet(fs[i])})
           /\ sent[1].method = "POST"

C17_Witness ==
    /\ Built
    /\ call.api = "device_types"
    /\ call.op = "create"
    /\ call.args["keep_alive"] = PInt(1)
    /\ call.args["description"] = PNone
    /\ sent[1].body = <<Entry("name", PStr("x")), Entry("groupId", PStr("x")),
                        Entry("keepAlive", PInt(1))>>

-----------------------------------------------------------------------------
(* The command line: the create commands, which fetch the record they      *)
(* created, and the destructive commands, which ask for confirmation.      *)
(* The devices and device-types commands call SigfoxClient themselves, the *)
(* other commands go through the facades of a Sigfox object.               *)

\* the create commands that fetch and display the created record
CreateCommands == {"devices", "groups", "users", "api_users"}

\* the commands that ask for confirmation unless --force is given
DestructiveVerbs ==
    {Op("devices", "delete", "DELETE"), Op("device_types", "delete", "DELETE"),
     Op("groups", "delete", "DELETE"), Op("users", "delete", "DELETE"),
     Op("api_users", "delete", "DELETE"),
     Op("api_users", "remove_profile", "DELETE"),
     Op("users", "remove_role", "DELETE"),
     Op("api_users", "renew_credential", "PUT")}

\* the resources with an update command and with a get command
UpdateCommands == {"devices", "device_types", "groups", "users", "api_users"}
GetCommands == {"devices", "device_types", "groups", "users", "api_users"}

\* the update options a run of an update command is given: none, one or two
\* of the options every update command has
UpdateOptions == SUBSET {"name", "timezone"}

\* a test that every run passes
HasUpdates_Always(options) == TRUE

\* `if not body` / `if not has_updates`: some update option has a value
HasUpdates(options) == options # {}

\* the commands written on SigfoxClient
LowLevel(api) == api \in {"devices", "device_types"}

\* the --device-id option of `devices create`
GivenDeviceId == "1A2B3C"

\* what the user types at the confirmation prompt; "eof" is a closed input
PromptAnswers == {"y", "n", "", "eof"}

OutputFormats == {"table", "json"}

CliCall(command, o, force, creds, fmt) ==
    [kind |-> "cli", command |-> command, api |-> o.api, op |-> o.op,
     method |-> o.method, force |-> force, creds |-> creds, fmt |-> fmt,
     answer |-> "-", options |-> {}]

\* a request of a command: the method and the id in the path (Absent for a
\* collection path)
CliRequest(method, target) == [method |-> method, target |-> target]

\* click.Abort, which ends the command with exit code 1
Abort(cause) == [kind |-> "Abort", cause |-> cause]

\* the exit code of a command that has ended
ExitCode == IF outcome = "raised" THEN 1 ELSE 0

\* get_client_from_config / get_sigfox_from_config without credentials
ConfigError == Raise("ConfigError", "API credentials not configured. ", [msg |-> ""], "")

\* a line on the console: print_error, print_success / print_info, or the
\* record an output_* function displays
Line(level, prefix, what) == [level |-> level, prefix |-> prefix, what |-> what]

\* print_error("No update fields specified. Use ...")
NoUpdateFields == [kind |-> "message", text |-> "No update fields specified"]

\* `except SigfoxCLIError` catches the errors of sigfox_cli.exceptions: the
\* ConfigError of the command and what the SigfoxClient of the low-level
\* commands raises.  The errors of the facades are sigfox.exceptions.
IsCliError(api, e) ==
    \/ e.kind = "ConfigError"
    \/ LowLevel(api) /\ e.kind \in Taxonomy

\* an exception that is caught but not reported
Caught_Silently(api, e) == Line("info", "", e)

\* the except clauses of a command: print_error(str(e)) for a
\* SigfoxCLIError, print_error(f"Unexpected error: {e}") for anything else
Caught(api, e) ==
    Line("error", IF IsCliError(api, e) THEN "" ELSE "Unexpected error: ", e)

\* The command ends in an except clause: the error is printed and click.Abort
\* is raised.
Fail(e) ==
    /\ outcome' = "raised"
    /\ error' = Abort(e)
    /\ printed' = Append(printed, Caught(call'.api, e))
    /\ pc' = "done"

\* The command from the creation of the client to its first request, made
\* inside `with client:`.  Without credentials ConfigError is raised before a
\* client exists.
Connect(c, first) ==
    IF c.creds
    THEN /\ client' = "open"
         /\ sent' = <<first>>
         /\ pc' = "await"
         /\ UNCHANGED <<outcome, error, printed>>
    ELSE /\ Fail(ConfigError)
         /\ UNCHANGED <<sent, client>>

\* `sigfox <resource> create ...`: the body is built and posted.
RunCreate(api, creds) ==
    /\ pc = "idle"
    /\ call' = CliCall("create", Op(api, "create", "POST"), FALSE, creds, "table")
    /\ Connect(call', CliRequest("POST", Absent))
    /\ UNCHANGED <<received, params, all_items, offset, page_limit, retval, retlist>>

\* `sigfox <resource> get ID`
RunGet(api, creds) ==
    /\ pc = "idle"
    /\ call' = CliCall("get", Op(api, "get", "GET"), FALSE, creds, "table")
    /\ Connect(call', CliRequest("GET", GivenDeviceId))
    /\ UNCHANGED <<received, params, all_items, offset, page_limit, retval, retlist>>

\* `sigfox <resource> update ID [options]`: the client is built, then the
\* options are looked at.  Without any, the message is printed and click.Abort
\* is raised inside the try block, where `except Exception` catches it
\* (click.Abort is a RuntimeError), prints once more and raises click.Abort
\* again; `with client:` is never reached.
RunUpdate(api, options, creds) ==
    /\ pc = "idle"
    /\ call' = [CliCall("update", Op(api, "update", "PUT"), FALSE, creds, "table")
                   EXCEPT !.options = options]
    /\ IF creds /\ ~HasUpdates(options)
       THEN /\ client' = "open"
            /\ outcome' = "raised"
            /\ error' = Abort(NoUpdateFields)
            /\ printed' = <<Line("error", "", NoUpdateFields),
                            Caught(api, [kind |-> "Abort"])>>
            /\ pc' = "done"
            /\ UNCHANGED sent
       ELSE Connect(call', CliRequest("PUT", GivenDeviceId))
    /\ UNCHANGED <<received, params, all_items, offset, page_limit, retval, retlist>>

\* A destructive command is started: with --force it goes on to its request,
\* without it click.confirm prompts the user.
RunDestructive(o, force, creds, fmt) ==
    /\ pc = "idle"
    /\ call' = CliCall("destructive", o, force, creds, fmt)
    /\ IF force
       THEN Connect(call', CliRequest(o.method, GivenDeviceId))
       ELSE /\ pc' = "prompt"
            /\ UNCHANGED <<sent, outcome, error, client, printed>>
    /\ UNCHANGED <<received, params, all_items, offset, page_limit, retval, retlist>>

\* a prompt whose answer is not looked at
AnswerPrompt_Ignored(a) ==
    /\ pc = "prompt"
    /\ call' = [call EXCEPT !.answer = a]
    /\ Connect(call, CliRequest(call.method, GivenDeviceId))
    /\ UNCHANGED <<received, params, all_items, offset, page_limit, retval, retlist>>

\* The user answers the prompt of click.confirm(..., abort=True): "y" goes
\* on, anything else (the default is No) raises click.Abort, which the
\* command re-raises (`except click.Abort: raise`).
AnswerPrompt(a) ==
    /\ pc = "prompt"
    /\ call' = [call EXCEPT !.answer = a]
    /\ IF a = "y"
       THEN Connect(call, CliRequest(call.method, GivenDeviceId))
       ELSE /\ outcome' = "raised"
            /\ error' = Abort([kind |-> "declined"])
            /\ pc' = "done"
            /\ UNCHANGED <<sent, client, printed>>
    /\ UNCHANGED <<received, params, all_items, offset, page_limit, retval, retlist>>

\* the result of the call a command makes: SigfoxClient's for the low-level
\* commands, the facade's for the others
CliResult(api, op, method, resp) ==
    IF LowLevel(api)
    THEN LET r == Request(method, resp)
         IN [error |-> r.error, value |-> r.value, list |-> <<>>]
    ELSE FacadeResult(Op(api, op, method), resp)

\* the id the create command fetches: result.get("id", <fallback>)
CreatedId(api, resp) ==
    IF DocOf(resp).id # Absent THEN DocOf(resp).id
    ELSE IF api = "devices" THEN GivenDeviceId ELSE "unknown"

\* the record a create or get command displays
Displayed(api, r, resp) ==
    IF LowLevel(api)
    THEN [type |-> "dict", id |-> IF r.value.type = "object" THEN DocOf(resp).id ELSE Absent]
    ELSE [type |-> "dict", id |-> r.value.id]

\* The block of `with client:` is left by an exception: __exit__ closes the
\* client, the except clause prints the error and raises click.Abort.
FailInBlock(e) ==
    /\ client' = "closed"
    /\ Fail(e)
    /\ UNCHANGED <<sent, retval>>

\* The block of `with client:` ends: the last line is printed and __exit__
\* closes the client.
EndBlock(line, value) ==
    /\ client' = "closed"
    /\ outcome' = "returned"
    /\ retval' = value
    /\ printed' = Append(printed, line)
    /\ pc' = "done"
    /\ UNCHANGED <<sent, error>>

\* The request of a command is answered.  Every exception is caught,
\* reported and turned into click.Abort.
CliReceive(resp) ==
    /\ pc = "await"
    /\ call.kind = "cli"
    /\ received' = Append(received, resp)
    /\ call' = call
    /\ LET last == sent[Len(sent)]
           r == CliResult(call.api, IF last.method = "GET" THEN "get" ELSE call.op,
                          last.method, resp)
       IN IF r.error # NoError
          THEN FailInBlock(r.error)
          ELSE IF call.command = "create" /\ Len(sent) = 1
          THEN IF r.value.type # "object"
               THEN \* result.get on a list
                    FailInBlock(Raise("AttributeError", "", Text(resp), ""))
               ELSE /\ sent' = Append(sent, CliRequest("GET", CreatedId(call.api, resp)))
                    /\ printed' = Append(printed,
                                         Line("success", "", [kind |-> "created",
                                                              id |-> CreatedId(call.api, resp)]))
                    /\ UNCHANGED <<pc, outcome, error, retval, client>>
          ELSE IF call.command \in {"create", "get"}
          THEN EndBlock(Line("out", "", Displayed(call.api, r, resp)),
                        Displayed(call.api, r, resp))
          ELSE IF /\ call.op = "renew_credential"
                  /\ call.fmt = "table"
                  /\ r.value.type # "object"
          THEN \* result.get("accessToken", "N/A") on a list
               FailInBlock(Raise("AttributeError", "", Text(resp), ""))
          ELSE EndBlock(Line("success", "", [kind |-> call.op]), r.value)
    /\ UNCHANGED <<params, all_items, offset, page_limit, retlist>>

\* what a server can answer to the request of a command
CliResponses ==
    FacadeResponses
    \cup {HttpResponse(s, RecordBody("1A2B3C", Absent, NoResults)) : s \in {201, 302}}

CliNext ==
    \/ \E api \in CreateCommands, creds \in BOOLEAN : RunCreate(api, creds)
    \/ \E api \in GetCommands, creds \in BOOLEAN : RunGet(api, creds)
    \/ \E api \in UpdateCommands, options \in UpdateOptions, creds \in BOOLEAN :
          RunUpdate(api, options, creds)
    \/ \E o \in DestructiveVerbs, force \in BOOLEAN, creds \in BOOLEAN,
          fmt \in OutputFormats : RunDestructive(o, force, creds, fmt)
    \/ \E a \in PromptAnswers : AnswerPrompt(a)
    \/ \E resp \in CliResponses : CliReceive(resp)

CliSpec == Init /\ [][CliNext]_vars

-----------------------------------------------------------------------------
(* The configuration: SigfoxConfig is a pydantic BaseSettings, load_config *)
(* completes it from the file config.toml.                                 *)

Settings == {"api_login", "api_password", "api_base_url", "output_format", "timeout"}

Sources == {"env", "dotenv", "toml"}

\* the default of a field of SigfoxConfig
Default(s) ==
    CASE s = "api_base_url" -> Some("https://api.sigfox.com/v2")
      [] s = "output_format" -> Some("table")
      [] s = "timeout" -> Some(30)
      [] OTHER -> None

\* the value a source holds for a setting, when it holds one: a valid value
\* of the field's type
ValueIn(source, s) ==
    CASE s = "timeout" ->
            Some(CASE source = "env" -> 10 [] source = "dotenv" -> 20 [] OTHER -> 40)
      [] s = "output_format" -> Some(IF source = "env" THEN "table" ELSE "json")
      [] OTHER -> Some(source)

\* SigfoxConfig(): pydantic-settings reads each field from the environment
\* (prefix SIGFOX_), then from the .env file, then takes the default
SigfoxConfig(env, dotenv) ==
    [s \in Settings |->
        IF env[s].has THEN env[s]
        ELSE IF dotenv[s].has THEN dotenv[s]
        ELSE Default(s)]

\* load_config(): the two credentials are taken from config.toml when they
\* are still None, the other three settings whenever config.toml has them
load_config(env, dotenv, toml) ==
    LET config == SigfoxConfig(env, dotenv)
    IN [s \in Settings |->
           IF s \in {"api_login", "api_password"}
           THEN IF ~config[s].has /\ toml[s].has THEN toml[s] ELSE config[s]
           ELSE IF toml[s].has THEN toml[s] ELSE config[s]]

\* what a source can hold: any subset of the settings (a config.toml that
\* does not exist holds none)
Holdings(source) ==
    {[s \in Settings |-> IF s \in held THEN ValueIn(source, s) ELSE None] :
        held \in SUBSET Settings}

ConfigCalls ==
    {[kind |-> "config", env |-> e, dotenv |-> d, toml |-> t] :
        e \in Holdings("env"), d \in Holdings("dotenv"), t \in Holdings("toml")}

\* load_config is about to be called in some environment.
ConfigInit ==
    /\ pc = "idle"
    /\ call \in ConfigCalls
    /\ sent = <<>>
    /\ received = <<>>
    /\ params = NoParams
    /\ all_items = <<>>
    /\ offset = 0
    /\ page_limit = 0
    /\ outcome = "pending"
    /\ retval = NoValue
    /\ retlist = <<>>
    /\ error = NoError
    /\ client = "none"
    /\ printed = <<>>

\* load_config() returns the configuration.
LoadConfig ==
    /\ pc = "idle"
    /\ call.kind = "config"
    /\ retval' = load_config(call.env, call.dotenv, call.toml)
    /\ outcome' = "returned"
    /\ pc' = "done"
    /\ UNCHANGED <<call, sent, received, params, all_items, offset, page_limit,
                   retlist, error, client, printed>>

ConfigNext == LoadConfig

ConfigSpec == ConfigInit /\ [][ConfigNext]_vars

-----------------------------------------------------------------------------
(* Properties of the configuration.                                        *)

Loaded == call.kind = "config" /\ pc = "done"

\* the value the priority order environment, .env, config.toml gives
ByPriority(s) ==
    IF call.env[s].has THEN call.env[s]
    ELSE IF call.dotenv[s].has THEN call.dotenv[s]
    ELSE IF call.toml[s].has THEN call.toml[s]
    ELSE Default(s)

\* C24: load_config resolves every setting (api_login, api_password,
\* api_base_url, output_format, timeout) from the environment first, then the
\* .env file, then config.toml; a value set in the environment is never
\* replaced by the value of config.toml.
C24_EnvThenDotenvThenToml ==
    Loaded => \A s \in Settings : retval[s] = ByPriority(s)

-----------------------------------------------------------------------------
(* Parsing a server object into a resource record: Model.model_validate.   *)
(* Every model is configured extra="allow", populate_by_name=True.         *)

\* the fields two record types declare, in declaration order
ResponseFields(model) ==
    CASE model = "Device" ->
           <<F(<<"id">>, Absent, "str", TRUE),
             F(<<"name">>, Absent, "str", FALSE),
             F(<<"device", "type">>, "deviceType", "DeviceType", FALSE),
             F(<<"state">>, Absent, "int", FALSE),
             F(<<"com", "state">>, "comState", "int", FALSE),
             F(<<"last", "com">>, "lastCom", "int", FALSE),
             F(<<"creation", "time">>, "creationTime", "int", FALSE),
             F(<<"activation", "time">>, "activationTime", "int", FALSE),
             F(<<"pac">>, Absent, "str", FALSE),
             F(<<"sequence", "number">>, "sequenceNumber", "int", FALSE),
             F(<<"lqi">>, Absent, "int", FALSE),
             F(<<"satellite", "capable">>, "satelliteCapable", "bool", FALSE),
             F(<<"repeater">>, Absent, "bool", FALSE),
             F(<<"automatic", "renewal">>, "automaticRenewal", "bool", FALSE),
             F(<<"lat">>, Absent, "float", FALSE),
             F(<<"lng">>, Absent, "float", FALSE),
             F(<<"prototype">>, Absent, "bool", FALSE),
             F(<<"activable">>, Absent, "bool", FALSE)>>
      [] model = "CoverageBulkResponse" ->
           <<F(<<"job", "done">>, "jobDone", "bool", FALSE),
             F(<<"time">>, Absent, "int", FALSE),
             F(<<"results">>, Absent, "list[CoverageBulkResult]", FALSE)>>

\* a key the server object does not have
Missing == [t |-> "missing"]

Present(doc) == {k \in DOMAIN doc : doc[k] # Missing}

\* The key a field is read from: its alias, or (populate_by_name) its Python
\* name when the alias is not there; Absent when neither is.
KeyUsed(f, doc) ==
    IF WireKey(f) \in Present(doc) THEN WireKey(f)
    ELSE IF Snake(f.words) \in Present(doc) THEN Snake(f.words)
    ELSE Absent

\* the value is one of the declared type (null only for an optional field)
ValueFits(f, v) ==
    CASE v = PNone -> ~f.required
      [] f.type = "str" -> v.t = "str"
      [] f.type = "int" -> v.t = "int"
      [] f.type = "bool" -> v.t = "bool"
      [] f.type = "float" -> v.t = "int"
      [] OTHER -> FALSE

\* the validation of one declared field fails: a required field is missing
\* or the value is not of the declared type
FieldError(f, doc) ==
    IF KeyUsed(f, doc) = Absent THEN f.required
    ELSE ~ValueFits(f, doc[KeyUsed(f, doc)])

UsedKeys(model, doc) ==
    {KeyUsed(ResponseFields(model)[i], doc) : i \in DOMAIN ResponseFields(model)}

\* extra="ignore": the keys that no field used are dropped
Extra_Ignore(model, doc) == <<>>

\* extra="allow": the keys that no field used are kept as they are
Extra(model, doc) ==
    [k \in Present(doc) \ UsedKeys(model, doc) |-> doc[k]]

\* Model.model_validate(doc): `values` are the declared fields in declaration
\* order (None for an optional field that was not sent), `extra` is
\* __pydantic_extra__
model_validate(model, doc) ==
    LET fields == ResponseFields(model)
    IN IF \E i \in DOMAIN fields : FieldError(fields[i], doc)
       THEN Fails(Raise("pydantic.ValidationError", "", [model |-> model], ""))
       ELSE Gives([type |-> "model", model |-> model,
                   values |-> [i \in DOMAIN fields |->
                                  IF KeyUsed(fields[i], doc) = Absent THEN PNone
                                  ELSE doc[KeyUsed(fields[i], doc)]],
                   extra |-> Extra(model, doc)], <<>>)

\* the values a server sends under a key
ServerValues(key) ==
    CASE key = "id" -> {PStr("1A2B3C"), PInt(7)}
      [] key = "lastCom" -> {PInt(5), PStr("x"), PNone}
      [] key = "last_com" -> {PInt(6)}
      [] key = "jobDone" -> {PBool(FALSE), PStr("x")}
      [] key = "time" -> {PInt(3)}
      [] key = "newField" -> {PStr("x"), PInt(1), PNone, PList(<<"a">>)}
      [] key = "x-extra" -> {PBool(TRUE)}

\* the keys the server objects of a record type are built from
ServerKeys(model) ==
    IF model = "Device" THEN {"id", "lastCom", "last_com", "newField", "x-extra"}
    ELSE {"jobDone", "time", "newField", "x-extra"}

ServerDocs(model) ==
    {doc \in [ServerKeys(model) -> UNION {ServerValues(k) : k \in ServerKeys(model)}
                                      \cup {Missing}] :
        \A k \in ServerKeys(model) : doc[k] \in ServerValues(k) \cup {Missing}}

ParseCalls ==
    {[kind |-> "parse", model |-> m, doc |-> d] :
        m \in {"Device"}, d \in ServerDocs("Device")}
    \cup {[kind |-> "parse", model |-> m, doc |-> d] :
            m \in {"CoverageBulkResponse"}, d \in ServerDocs("CoverageBulkResponse")}

\* A server object is about to be parsed.
ParseInit ==
    /\ pc = "idle"
    /\ call \in ParseCalls
    /\ sent = <<>>
    /\ received = <<>>
    /\ params = NoParams
    /\ all_items = <<>>
    /\ offset = 0
    /\ page_limit = 0
    /\ outcome = "pending"
    /\ retval = NoValue
    /\ retlist = <<>>
    /\ error = NoError
    /\ client = "none"
    /\ printed = <<>>

\* Model.model_validate(response) returns the record or raises.
Parse ==
    /\ pc = "idle"
    /\ call.kind = "parse"
    /\ LET r == model_validate(call.model, call.doc)
       IN /\ outcome' = IF r.error # NoError THEN "raised" ELSE "returned"
          /\ error' = r.error
          /\ retval' = r.value
    /\ pc' = "done"
    /\ UNCHANGED <<call, sent, received, params, all_items, offset, page_limit,
                   retlist, client, printed>>

ParseNext == Parse

ParseSpec == ParseInit /\ [][ParseNext]_vars

-----------------------------------------------------------------------------
(* Properties of parsing.                                                  *)

Parsed == call.kind = "parse" /\ pc = "done"

\* the record type declares a field with this alias or this name
Declares(model, k) ==
    \E i \in DOMAIN ResponseFields(model) :
        k \in {WireKey(ResponseFields(model)[i]), Snake(ResponseFields(model)[i].words)}

\* the keys the server sent that the record type does not declare
Undeclared == {k \in Present(call.doc) : ~Declares(call.model, k)}

\* C27: parsing a server object into a resource record never fails because
\* of a field the record type does not declare (when it fails, a declared
\* field is missing or ill-typed), and the parsed record holds every such
\* field under its key with the value the server sent; a declared field sent
\* under its alias keeps its value as well.
C27_UnknownFieldsKept ==
    Parsed =>
        /\ outcome = "raised" =>
              \E i \in DOMAIN ResponseFields(call.model) :
                  FieldError(ResponseFields(call.model)[i], call.doc)
        /\ outcome = "returned" =>
              /\ \A k \in Undeclared :
                    /\ k \in DOMAIN retval.extra
                    /\ retval.extra[k] = call.doc[k]
              /\ \A i \in DOMAIN ResponseFields(call.model) :
                    WireKey(ResponseFields(call.model)[i]) \in Present(call.doc) =>
                        retval.values[i] = call.doc[WireKey(ResponseFields(call.model)[i])]

C27_Witness ==
    /\ Parsed
    /\ call.model = "Device"
    /\ call.doc["id"] = PStr("1A2B3C")
    /\ call.doc["lastCom"] = PInt(5)
    /\ call.doc["newField"] = PList(<<"a">>)
    /\ call.doc["x-extra"] = PBool(TRUE)
    /\ call.doc["last_com"] = Missing
    /\ outcome = "returned"
    /\ retval.extra = [k \in {"newField", "x-extra"} |-> call.doc[k]]
    /\ retval.values[1] = PStr("1A2B3C")
    /\ retval.values[6] = PInt(5)

-----------------------------------------------------------------------------
(* The context managers: `with SigfoxClient(...) as c:` and                *)
(* `with Sigfox(...) as c:`.  The block makes a request, raises an error   *)
(* of its own or simply ends; __exit__ runs when it is left.               *)

ContextManagers == {"SigfoxClient", "Sigfox"}

\* what the code of a block can raise by itself
BlockErrors == {Raise("ValueError", "", [msg |-> "block"], "")}

WithCall(owner, how) ==
    [kind |-> "with", owner |-> owner, how |-> how, method |-> "-", exc |-> NoError]

\* SigfoxClient.close(): self._client.close().  Sigfox.close() calls it.
close == "closed"

\* an __exit__ that returns True
ExitSuppresses_True == TRUE

\* bool(__exit__(...)): both __exit__ methods call close() and return None
ExitSuppresses == FALSE

\* the client is constructed and the with statement calls __enter__, which
\* returns self
Enter(owner) ==
    /\ pc = "idle"
    /\ call' = WithCall(owner, "with")
    /\ client' = "open"
    /\ pc' = "block"
    /\ UNCHANGED <<sent, received, params, all_items, offset, page_limit,
                   outcome, retval, retlist, error, printed>>

\* the client is constructed and used without a with statement
Construct(owner) ==
    /\ pc = "idle"
    /\ call' = WithCall(owner, "plain")
    /\ client' = "open"
    /\ pc' = "open"
    /\ UNCHANGED <<sent, received, params, all_items, offset, page_limit,
                   outcome, retval, retlist, error, printed>>

\* the caller calls close()
Close ==
    /\ pc = "open"
    /\ client' = close
    /\ outcome' = "returned"
    /\ pc' = "done"
    /\ UNCHANGED <<call, sent, received, params, all_items, offset, page_limit,
                   retval, retlist, error, printed>>

\* the block calls a request operation
BlockRequest(method) ==
    /\ pc = "block"
    /\ sent = <<>>
    /\ call' = [call EXCEPT !.method = method]
    /\ sent' = <<HttpRequest(method, NoParams)>>
    /\ pc' = "await"
    /\ UNCHANGED <<received, params, all_items, offset, page_limit, outcome,
                   retval, retlist, error, client, printed>>

\* the request is answered: the operation returns into the block or raises
BlockAnswer(resp) ==
    /\ pc = "await"
    /\ call.kind = "with"
    /\ received' = Append(received, resp)
    /\ LET r == Request(call.method, resp)
       IN /\ call' = [call EXCEPT !.exc = r.error]
          /\ retval' = r.value
          /\ pc' = IF r.error # NoError THEN "exit" ELSE "block"
    /\ UNCHANGED <<sent, params, all_items, offset, page_limit, outcome,
                   retlist, error, client, printed>>

\* the code of the block raises
BlockRaises(e) ==
    /\ pc = "block"
    /\ call' = [call EXCEPT !.exc = e]
    /\ pc' = "exit"
    /\ UNCHANGED <<sent, received, params, all_items, offset, page_limit,
                   outcome, retval, retlist, error, client, printed>>

\* the block runs to its end
BlockEnds ==
    /\ pc = "block"
    /\ pc' = "exit"
    /\ UNCHANGED <<call, sent, received, params, all_items, offset, page_limit,
                   outcome, retval, retlist, error, client, printed>>

\* __exit__(exc_type, exc_val, exc_tb): close(), then the with statement
\* re-raises the exception of the block unless __exit__ returned a true value
Exit ==
    /\ pc = "exit"
    /\ client' = close
    /\ IF call.exc # NoError /\ ~ExitSuppresses
       THEN /\ outcome' = "raised"
            /\ error' = call.exc
       ELSE /\ outcome' = "returned"
            /\ UNCHANGED error
    /\ pc' = "done"
    /\ UNCHANGED <<call, sent, received, params, all_items, offset, page_limit,
                   retval, retlist, printed>>

WithNext ==
    \/ \E owner \in ContextManagers : Enter(owner)
    \/ \E owner \in ContextManagers : Construct(owner)
    \/ Close
    \/ \E m \in Methods : BlockRequest(m)
    \/ \E resp \in Responses : BlockAnswer(resp)
    \/ \E e \in BlockErrors : BlockRaises(e)
    \/ BlockEnds
    \/ Exit

WithSpec == Init /\ [][WithNext]_vars

-----------------------------------------------------------------------------
(* Properties of the context managers.                                     *)

\* a with block has been left
BlockLeft == call.kind = "with" /\ call.how = "with" /\ pc = "done"

\* close() has been called on a client used without a with statement
ClosedPlainly == call.kind = "with" /\ call.how = "plain" /\ pc = "done"

\* C30: leaving a with block of SigfoxClient or Sigfox closes the underlying
\* HTTP client as close() does, whether the block ended normally or by an
\* exception, and never suppresses the exception: an error raised inside the
\* block reaches the caller of the block unchanged.  Inside the block the
\* client is open.
C30_ExitClosesAndPropagates ==
    /\ (call.kind = "with" /\ pc \in {"block", "await", "exit"}) => client = "open"
    /\ ClosedPlainly => client = "closed"
    /\ BlockLeft =>
          /\ client = "closed"
          /\ call.exc # NoError => (outcome = "raised" /\ error = call.exc)
          /\ call.exc = NoError => (outcome = "returned" /\ error = NoError)

C30_Witness ==
    /\ BlockLeft
    /\ call.owner = "Sigfox"
    /\ received = <<HttpResponse(404, ObjectBody("Not Found"))>>
    /\ client = "closed"
    /\ outcome = "raised"
    /\ error = Raise("NotFoundError", "Resource not found: ", [msg |-> "Not Found"], "")

-----------------------------------------------------------------------------
(* Properties of the command line.                                         *)

CreateRun == call.kind = "cli" /\ call.command = "create"

\* the POST of the create command was answered by a response that is not a
\* success: a transport failure or a status outside 200-299
PostFailed == Len(received) >= 1 /\ (IsFailure(received[1]) \/ ~IsSuccess(received[1]))

\* C18: the create command first issues the POST and, only after the POST
\* succeeded, one GET for the id the POST response returned; the record it
\* displays is the answer to that GET and has that id.  When the POST fails
\* no GET is issued.
C18_CreateThenFetch ==
    CreateRun =>
        /\ Len(sent) <= 2
        /\ Len(sent) >= 1 => sent[1] = CliRequest("POST", Absent)
        /\ Len(sent) = 2 =>
              /\ Len(received) >= 1
              /\ ~PostFailed
              /\ sent[2].method = "GET"
              /\ DocOf(received[1]).id # Absent => sent[2].target = DocOf(received[1]).id
        /\ PostFailed => Len(sent) = 1 /\ (pc = "done" => ExitCode = 1)
        /\ (pc = "done" /\ outcome = "returned") =>
              /\ Len(sent) = 2
              /\ Len(received) = 2
              /\ (DocOf(received[1]).id # Absent /\ DocOf(received[2]).id = sent[2].target)
                    => retval.id = DocOf(received[1]).id

-----------------------------------------------------------------------------
(* Properties of the bulk coverage job.                                    *)

BulkCall == FacadeCalled /\ call.op = "get_bulk_prediction"

\* the answer is 200 with a JSON object whose jobDone is this literal
JobAnswer(resp, literal) ==
    /\ ~IsFailure(resp)
    /\ resp.status = 200
    /\ resp.body.kind = "object"
    /\ DocOf(resp).jobDone = literal

\* C19: get_bulk_prediction issues exactly one GET per call and never polls:
\* after n calls n requests have gone out.  A call answered jobDone false
\* (and no results) returns at once with job_done False and results None; a
\* call answered jobDone true with a results array returns job_done True with
\* one result per element of the array, in its order.
C19_OneGetPerCallNoPolling ==
    BulkCall =>
        /\ Len(sent) = call.n
        /\ \A i \in DOMAIN sent : sent[i].method = "GET"
        /\ Len(received) = IF pc = "done" THEN call.n ELSE call.n - 1
        /\ (pc = "done" /\ JobAnswer(LastResp, "false") /\ ~DocOf(LastResp).results.has) =>
              /\ outcome = "returned"
              /\ retval.job_done = "False"
              /\ retval.results = NoResults
        /\ (pc = "done" /\ JobAnswer(LastResp, "true") /\ DocOf(LastResp).results.has) =>
              /\ outcome = "returned"
              /\ retval.job_done = "True"
              /\ retval.results.has
              /\ Len(retval.results.v) = Len(DocOf(LastResp).results.v)
              /\ \A i \in DOMAIN retval.results.v :
                    retval.results.v[i]
                       = Validated("CoverageBulkResult", DocOf(LastResp).results.v[i])

C19_Witness ==
    /\ call.kind = "sigfox"
    /\ BulkCall
    /\ pc = "done"
    /\ call.n = 2
    /\ Len(sent) = 2
    /\ received[1] = HttpResponse(200, RecordBody(Absent, "false", NoResults))
    /\ received[2] = HttpResponse(200, RecordBody(Absent, "true", Some(<<1, 2>>)))
    /\ retval.job_done = "True"
    /\ retval.results.v = <<Validated("CoverageBulkResult", 1),
                            Validated("CoverageBulkResult", 2)>>

-----------------------------------------------------------------------------
(* Properties of the destructive commands.                                 *)

DestructiveRun == call.kind = "cli" /\ call.command = "destructive"

\* the user was asked and did not answer yes
Declined == ~call.force /\ call.answer \notin {"-", "y"}

\* C20: a destructive command sends its HTTP request only if --force was
\* given or the user answered yes to the confirmation prompt; when the user
\* declines, the command ends with a non-zero exit code and no request is
\* sent.
C20_ConfirmedOrForcedOnly ==
    DestructiveRun =>
        /\ Len(sent) > 0 => (call.force \/ call.answer = "y")
        /\ Len(sent) <= 1
        /\ Declined => (pc = "done" /\ ExitCode # 0 /\ sent = <<>>)
        /\ (~call.force /\ call.answer = "-") => (pc = "prompt" /\ sent = <<>>)

C20_Witness ==
    /\ DestructiveRun
    /\ call.api = "users"
    /\ call.op = "remove_role"
    /\ ~call.force
    /\ call.creds
    /\ call.answer = "n"
    /\ pc = "done"
    /\ ExitCode = 1
    /\ sent = <<>>

-----------------------------------------------------------------------------
(* Properties of the update commands.                                      *)

UpdateRun == call.kind = "cli" /\ call.command = "update"

\* the run was given no update option
NoOptions == call.options = {}

\* the command has printed this message
Printed(what) == \E i \in DOMAIN printed : printed[i].what = what

\* the command ended with a non-zero exit code before any request
AbortedUnsent == pc = "done" /\ ExitCode # 0 /\ sent = <<>>

-----------------------------------------------------------------------------
(* Properties of the client a command builds.                              *)

CommandEnded == call.kind = "cli" /\ pc = "done"

\* C22: every client a command opens is released: when the command has
\* returned or aborted, on whatever path (early exits and error paths after
\* the client was constructed included), no client is left open.
C22_ClientReleased ==
    CommandEnded => client # "open"

-----------------------------------------------------------------------------
(* Properties of ApiUsersAPI.renew_credential.                             *)

RenewCall == FacadeCalled /\ call.op = "renew_credential"

RenewOp == Op("api_users", "renew_credential", "PUT")

\* C23: renew_credential asks for no confirmation: each call issues exactly
\* one PUT, which carries neither a body nor query parameters, and returns
\* the mapping of the response; after n calls n PUTs have gone out.
C23_RenewIssuesOnePutPerCall ==
    RenewCall =>
        /\ Len(sent) = call.n
        /\ \A i \in DOMAIN sent : sent[i] = HttpRequest("PUT", NoParams)
        /\ \A args \in ArgChoices(RenewOp) :
              /\ FacadeRequest(RenewOp, args).body = <<>>
              /\ FacadeRequest(RenewOp, args).query = <<>>
        /\ Len(received) = IF pc = "done" THEN call.n ELSE call.n - 1
        /\ (pc = "done" /\ IsSuccess(LastResp) /\ LastResp.body.kind = "object") =>
              /\ outcome = "returned"
              /\ retval = Json(LastResp)

C23_Witness ==
    /\ RenewCall
    /\ call.kind = "sigfox"
    /\ pc = "done"
    /\ call.n = 2
    /\ sent = <<HttpRequest("PUT", NoParams), HttpRequest("PUT", NoParams)>>
    /\ received[1] = HttpResponse(200, ObjectBody(Absent))
    /\ received[2] = HttpResponse(200, ObjectBody(Absent))
    /\ outcome = "returned"
    /\ retval = Json(received[2])

-----------------------------------------------------------------------------
(* Properties of the commands whose request fails.                         *)

CliRun == call.kind = "cli"

LastLine == printed[Len(printed)]

\* C25: a command whose HTTP request fails (an error status such as 404, or a
\* network failure) prints the error and exits with a non-zero code; it makes
\* no further request and prints nothing after the error, so it never
\* reports success after the failed request.
C25_FailedRequestIsReported ==
    CliRun =>
        \A i \in DOMAIN received :
            Failed(received[i]) =>
                /\ i = Len(received)
                /\ Len(sent) = i
                /\ pc = "done"
                /\ ExitCode # 0
                /\ Len(printed) > 0
                /\ LastLine.level = "error"
                /\ Reports(LastLine.what, received[i])
                /\ error = Abort(LastLine.what)

C25_Witness ==
    /\ CliRun
    /\ call.command = "get"
    /\ call.api = "devices"
    /\ pc = "done"
    /\ received = <<HttpResponse(404, ObjectBody("Not Found"))>>
    /\ ExitCode = 1
    /\ printed = <<Line("error", "",
                        Raise("NotFoundError", "Resource not found: ",
                              [msg |-> "Not Found"], ""))>>

-----------------------------------------------------------------------------
(* Properties of the error messages.                                       *)

\* the last request was answered with an error status
ErrorResponse == Len(received) > 0 /\ ~IsFailure(LastResp) /\ LastResp.status >= 400

\* the body is a JSON object with a message field
HasMessageField(body) == body.kind = "object" /\ body.message # Absent

\* C26: the message of the error raised for an error response embeds the
\* server's message field when the body is a JSON object that has one, and
\* the raw response text otherwise (body not JSON, not an object, or an
\* object without a message field).
C26_MessageOrRawText ==
    (pc = "done" /\ ErrorResponse) =>
        /\ outcome = "raised"
        /\ error.kind \in Taxonomy
        /\ error.detail = IF HasMessageField(LastResp.body)
                          THEN [msg |-> LastResp.body.message]
                          ELSE [raw |-> LastResp.body]

C26_Witness ==
    /\ call.kind = "client"
    /\ call.method = "POST"
    /\ pc = "done"
    /\ received = <<HttpResponse(500, ArrayBody)>>
    /\ outcome = "raised"
    /\ error = RaiseAPIError("API error (status ", [raw |-> ArrayBody], 500,
                             [raw |-> ArrayBody])

-----------------------------------------------------------------------------
(* Properties of get_paginated towards its caller.                         *)

\* the caller passed a params mapping with at least one entry (a mapping
\* without entries is not told apart from params=None, for which
\* get_paginated makes a mapping of its own)
PassedMapping == call.params # NoParams

\* C28: get_paginated leaves the params mapping passed by the caller
\* unchanged: after the call, whether it returned or raised, the mapping
\* holds the same offset and limit entries (or none) as before.
C28_CallerParamsUnchanged ==
    (Paginated /\ PassedMapping /\ pc = "done") => params = call.params

-----------------------------------------------------------------------------
(* Properties of a page request that fails.                                *)

\* the i-th page request failed: an error status or a transport failure
PageFailed(i) == Failed(received[i])

\* C29: when a page request of get_paginated fails (error status or network
\* failure) after earlier pages were fetched, the call raises the error of
\* that failure, issues no further request and returns none of the items
\* accumulated so far.
C29_FailedPageFailsTheCall ==
    Paginated =>
        \A i \in DOMAIN received :
            PageFailed(i) =>
                /\ i = Len(received)
                /\ Len(sent) = i
                /\ pc = "done"
                /\ outcome = "raised"
                /\ Reports(error, received[i])
                /\ retlist = <<>>

C29_Witness ==
    /\ Paginated
    /\ pc = "done"
    /\ Len(received) = 2
    /\ IsPage(received[1])
    /\ Len(PageData(1)) = PageSize
    /\ received[2] = HttpResponse(500, ObjectBody("Not Found"))
    /\ Len(sent) = 2
    /\ outcome = "raised"
    /\ error = RaiseAPIError("API error (status ", [msg |-> "Not Found"], 500,
                             [raw |-> ObjectBody("Not Found")])
    /\ all_items = PageData(1)
    /\ retlist = <<>>

====
